---- MODULE Spec2Model ----
(***************************************************************************)
(* Model of vision_processor/midi_sender.py (class MidiSender): the chord  *)
(* and melody note life cycle and the MIDI messages each call sends; and   *)
(* of vision_processor/features.py (class FeatureExtractor): the mapping   *)
(* calculate returns and its smoothing state.                              *)
(*                                                                         *)
(* Numbers.  Motion features are floats in the source.  The model carries  *)
(* them in hundredths (feetCenterX 0.25 is 25, hipTilt -1.0 is -100) and   *)
(* does the source's arithmetic exactly on these rationals; int() is       *)
(* truncation toward zero (Trunc).  Wall-clock time is carried in          *)
(* hundredths of a second (base_note_duration 0.3 s is 30).                *)
(***************************************************************************)
EXTENDS Integers, Sequences, FiniteSets, TLC

(***************************************************************************)
(* Class constants, midi_sender.py lines 22-56, and the durations set in   *)
(* __init__, lines 76-79.                                                  *)
(***************************************************************************)
SCALE_NOTES == <<0, 2, 4, 5, 7, 9, 11>>

ChordNames == {"I", "IV", "V", "VI"}

CHORDS == [c \in ChordNames |->
             CASE c = "I"  -> <<48, 52, 55>>
               [] c = "IV" -> <<53, 57, 60>>
               [] c = "V"  -> <<55, 59, 62>>
               [] c = "VI" -> <<57, 60, 64>>]

\* (min_x, max_x, chord), in hundredths
CHORD_ZONES == << <<0, 25, "I">>, <<25, 50, "IV">>, <<50, 75, "V">>, <<75, 100, "VI">> >>

CH_MASTER == 0
CH_CHORD_ROOT == 1
CH_CHORD_THIRD == 2
CH_CHORD_FIFTH == 3
CH_MELODY_RIGHT == 4
\* the left hand given the right hand's channel
CH_MELODY_LEFT_shared == CH_MELODY_RIGHT

CH_MELODY_LEFT == 5

MELODY_RIGHT_BASE == 48
MELODY_LEFT_BASE == 72

\* 0.4, in hundredths
JERK_THRESHOLD == 40

\* 0.3 s, 0.15 s, 0.6 s in hundredths of a second
base_note_duration == 30
min_note_duration == 15
max_note_duration == 60

\* Python's None for a melody note; the chord name None is the string "None"
NoNote == -1
NoChord == "None"

ChordChannels == <<CH_CHORD_ROOT, CH_CHORD_THIRD, CH_CHORD_FIFTH>>
NoteChannels == {CH_CHORD_ROOT, CH_CHORD_THIRD, CH_CHORD_FIFTH, CH_MELODY_RIGHT, CH_MELODY_LEFT}

(***************************************************************************)
(* Arithmetic helpers.                                                     *)
(***************************************************************************)
Min(a, b) == IF a <= b THEN a ELSE b
Max(a, b) == IF a >= b THEN a ELSE b

\* Python int(n/d) for d > 0: truncation toward zero
Trunc(n, d) == IF n >= 0 THEN n \div d ELSE -((-n) \div d)

\* Python round(n/d) for d > 0: to the nearest integer, a tie to the even one
Round(n, d) ==
    LET q == n \div d
        r == n - q * d
    IN  IF 2 * r < d THEN q
        ELSE IF 2 * r > d THEN q + 1
        ELSE IF q % 2 = 0 THEN q ELSE q + 1

\* features.get(key, default)
Get(f, key, default) == IF key \in DOMAIN f THEN f[key] ELSE default

(***************************************************************************)
(* Low-level MIDI messages, lines 366-408: what port.send receives.        *)
(***************************************************************************)
note_on(note, velocity, channel) ==
    [type |-> "note_on", channel |-> channel, note |-> note, velocity |-> velocity]

note_off(note, channel) ==
    [type |-> "note_off", channel |-> channel, note |-> note, velocity |-> 0]

\* a pitch bend sent without the offset of line 384
pitch_bend_raw(value, channel) ==
    [type |-> "pitchwheel", channel |-> channel, pitch |-> value]

pitch_bend(value, channel) ==
    [type |-> "pitchwheel", channel |-> channel, pitch |-> value - 8192]

channel_pressure(value, channel) ==
    [type |-> "aftertouch", channel |-> channel, value |-> value]

control_change(control, value, channel) ==
    [type |-> "control_change", channel |-> channel, control |-> control, value |-> value]

\* an all-notes-off that also reaches the master channel
all_notes_off_with_master ==
    [i \in 1..6 |-> control_change(123, 0, i - 1)]

\* _all_notes_off, lines 410-418
all_notes_off ==
    [i \in 1..5 |-> control_change(123, 0,
        <<CH_CHORD_ROOT, CH_CHORD_THIRD, CH_CHORD_FIFTH, CH_MELODY_RIGHT, CH_MELODY_LEFT>>[i])]

(***************************************************************************)
(* Chord handling, lines 123-202.                                          *)
(***************************************************************************)
RECURSIVE ZoneScan(_, _)
ZoneScan(x, i) ==
    IF i > Len(CHORD_ZONES) THEN "I"
    ELSE IF CHORD_ZONES[i][1] <= x /\ x < CHORD_ZONES[i][2] THEN CHORD_ZONES[i][3]
    ELSE ZoneScan(x, i + 1)

\* the zone test written min_x < x <= max_x
RECURSIVE ZoneScanUpper(_, _)
ZoneScanUpper(x, i) ==
    IF i > Len(CHORD_ZONES) THEN "I"
    ELSE IF CHORD_ZONES[i][1] < x /\ x <= CHORD_ZONES[i][2] THEN CHORD_ZONES[i][3]
    ELSE ZoneScanUpper(x, i + 1)

get_chord_from_position_upper(x) == ZoneScanUpper(x, 1)

get_chord_from_position(x) == ZoneScan(x, 1)

\* zip(notes, channels) mapped through a message constructor
ZipLen(notes) == Min(Len(notes), Len(ChordChannels))

\* the new chord recorded without replacing current_chord_notes
change_chord_stale_notes(old_notes, new_chord, velocity_factor) ==
    LET offs == [i \in 1..ZipLen(old_notes) |-> note_off(old_notes[i], ChordChannels[i])]
        velocity == Max(1, Min(127, Trunc(4000 + velocity_factor * 87, 100)))
        ons == [i \in 1..ZipLen(old_notes) |-> note_on(old_notes[i], velocity, ChordChannels[i])]
    IN  [chord |-> new_chord, notes |-> old_notes, msgs |-> offs \o ons]

\* the new triad turned on before the old one is turned off
change_chord_on_first(old_notes, new_chord, velocity_factor) ==
    LET offs == [i \in 1..ZipLen(old_notes) |-> note_off(old_notes[i], ChordChannels[i])]
        new_notes == CHORDS[new_chord]
        velocity == Max(1, Min(127, Trunc(4000 + velocity_factor * 87, 100)))
        ons == [i \in 1..ZipLen(new_notes) |-> note_on(new_notes[i], velocity, ChordChannels[i])]
    IN  [chord |-> new_chord, notes |-> new_notes, msgs |-> ons \o offs]

\* the chord velocity rounded to the nearest integer
change_chord_rounded(old_notes, new_chord, velocity_factor) ==
    LET offs == [i \in 1..ZipLen(old_notes) |-> note_off(old_notes[i], ChordChannels[i])]
        new_notes == CHORDS[new_chord]
        velocity == Max(1, Min(127, Round(4000 + velocity_factor * 87, 100)))
        ons == [i \in 1..ZipLen(new_notes) |-> note_on(new_notes[i], velocity, ChordChannels[i])]
    IN  [chord |-> new_chord, notes |-> new_notes, msgs |-> offs \o ons]

change_chord(old_notes, new_chord, velocity_factor) ==
    LET offs == [i \in 1..ZipLen(old_notes) |-> note_off(old_notes[i], ChordChannels[i])]
        new_notes == CHORDS[new_chord]
        velocity == Max(1, Min(127, Trunc(4000 + velocity_factor * 87, 100)))
        ons == [i \in 1..ZipLen(new_notes) |-> note_on(new_notes[i], velocity, ChordChannels[i])]
    IN  [chord |-> new_chord, notes |-> new_notes, msgs |-> offs \o ons]

\* the three pressures sent before the three bends
apply_chord_expression_pressure_first(hip_tilt, knee_angle) ==
    LET bend == Max(0, Min(16383, Trunc(819200 + hip_tilt * 4096, 100)))
        pressure == Trunc(knee_angle * 127, 100)
    IN  [i \in 1..3 |-> channel_pressure(pressure, ChordChannels[i])]
        \o [i \in 1..3 |-> pitch_bend(bend, ChordChannels[i])]

apply_chord_expression(hip_tilt, knee_angle) ==
    LET bend == Max(0, Min(16383, Trunc(819200 + hip_tilt * 4096, 100)))
        pressure == Trunc(knee_angle * 127, 100)
    IN  [i \in 1..3 |-> pitch_bend(bend, ChordChannels[i])]
        \o [i \in 1..3 |-> channel_pressure(pressure, ChordChannels[i])]

\* the chord expression applied only in the call that changes the chord
update_chords_expr_on_change(chord, notes, f) ==
    LET feet_x == Get(f, "feetCenterX", 50)
        hip_tilt == Get(f, "hipTilt", 0)
        knee_angle == Get(f, "kneeAngle", 100)
        new_chord == get_chord_from_position(feet_x)
    IN  IF new_chord # chord
        THEN LET c == change_chord(notes, new_chord, knee_angle)
             IN  [chord |-> c.chord, notes |-> c.notes,
                  msgs |-> c.msgs \o apply_chord_expression(hip_tilt, knee_angle)]
        ELSE [chord |-> chord, notes |-> notes, msgs |-> <<>>]

update_chords(chord, notes, f) ==
    LET feet_x == Get(f, "feetCenterX", 50)
        hip_tilt == Get(f, "hipTilt", 0)
        knee_angle == Get(f, "kneeAngle", 100)
        new_chord == get_chord_from_position(feet_x)
        c == IF new_chord # chord
             THEN change_chord(notes, new_chord, knee_angle)
             ELSE [chord |-> chord, notes |-> notes, msgs |-> <<>>]
        expr == IF c.chord # NoChord THEN apply_chord_expression(hip_tilt, knee_angle) ELSE <<>>
    IN  [chord |-> c.chord, notes |-> c.notes, msgs |-> c.msgs \o expr]

(***************************************************************************)
(* Melody handling, lines 207-341.                                         *)
(***************************************************************************)
\* the scale index taken as int(hand_y * 7)
hand_y_to_note_times_seven(hand_y, base_note) ==
    LET scale_index == Max(0, Min(7, Trunc(hand_y * 7, 100)))
    IN  IF scale_index = 7 THEN base_note + 12
        ELSE base_note + SCALE_NOTES[scale_index + 1]

\* _hand_y_to_note, lines 318-341: int(hand_y * 7.99), clamped to 0..7
hand_y_to_note(hand_y, base_note) ==
    LET scale_index == Max(0, Min(7, Trunc(hand_y * 799, 10000)))
    IN  IF scale_index = 7 THEN base_note + 12
        ELSE base_note + SCALE_NOTES[scale_index + 1]

\* the threshold test written >=
triggers_ge(jerk) == jerk >= JERK_THRESHOLD

\* line 273: the jerk exceeds the threshold
triggers(jerk) == jerk > JERK_THRESHOLD

\* the elapsed time taken with its operands swapped
note_expired_swapped(current_time, note_start_time) ==
    note_start_time - current_time > base_note_duration

\* the duration test against ten times the base duration
note_expired_late(current_time, note_start_time) ==
    current_time - note_start_time > base_note_duration * 10

\* the duration test written >=
note_expired_ge(current_time, note_start_time) ==
    current_time - note_start_time >= base_note_duration

\* lines 303-304: the sounding note has lasted longer than base_note_duration
note_expired(current_time, note_start_time) ==
    current_time - note_start_time > base_note_duration

\* lines 278-281: computed at a trigger, printed, and not kept; in
\* ten-thousandths of a second (arm_velocity is in hundredths)
duration(arm_velocity) ==
    LET d == base_note_duration * 100 - arm_velocity * 15
    IN  Max(min_note_duration * 100, Min(max_note_duration * 100, d))

\* a retrigger that does not turn the sounding note off
melody_msgs_no_off(current_note, note_start_time, target_note, velocity, bend, jerk, channel, current_time) ==
    (IF triggers(jerk)
     THEN <<note_on(target_note, velocity, channel)>>
     ELSE IF current_note # NoNote /\ note_expired(current_time, note_start_time)
     THEN <<note_off(current_note, channel)>>
     ELSE <<>>)
    \o (IF current_note # NoNote THEN <<pitch_bend(bend, channel)>> ELSE <<>>)

\* a retrigger that turns the new note on before it turns the old one off
melody_msgs_on_first(current_note, note_start_time, target_note, velocity, bend, jerk, channel, current_time) ==
    (IF triggers(jerk)
     THEN <<note_on(target_note, velocity, channel)>>
          \o (IF current_note # NoNote THEN <<note_off(current_note, channel)>> ELSE <<>>)
     ELSE IF current_note # NoNote /\ note_expired(current_time, note_start_time)
     THEN <<note_off(current_note, channel)>>
     ELSE <<>>)
    \o (IF current_note # NoNote THEN <<pitch_bend(bend, channel)>> ELSE <<>>)

\* a trigger that leaves a sounding note alone when it is the target note
melody_msgs_skips_same(current_note, note_start_time, target_note, velocity, bend, jerk, channel, current_time) ==
    (IF triggers(jerk)
     THEN (IF current_note = target_note THEN <<>>
           ELSE (IF current_note # NoNote THEN <<note_off(current_note, channel)>> ELSE <<>>)
                \o <<note_on(target_note, velocity, channel)>>)
     ELSE IF current_note # NoNote /\ note_expired(current_time, note_start_time)
     THEN <<note_off(current_note, channel)>>
     ELSE <<>>)
    \o (IF current_note # NoNote THEN <<pitch_bend(bend, channel)>> ELSE <<>>)

\* the messages of one hand, in sending order: lines 283-288, 305, 311-316
melody_msgs(current_note, note_start_time, target_note, velocity, bend, jerk, channel, current_time) ==
    (IF triggers(jerk)
     THEN (IF current_note # NoNote THEN <<note_off(current_note, channel)>> ELSE <<>>)
          \o <<note_on(target_note, velocity, channel)>>
     ELSE IF current_note # NoNote /\ note_expired(current_time, note_start_time)
     THEN <<note_off(current_note, channel)>>
     ELSE <<>>)
    \o (IF current_note # NoNote THEN <<pitch_bend(bend, channel)>> ELSE <<>>)

\* a timeout that sends the note-off and keeps the note as active
melody_state_no_clear(current_note, note_start_time, target_note, jerk, current_time) ==
    IF triggers(jerk)
    THEN [note |-> target_note, time |-> current_time]
    ELSE [note |-> current_note, time |-> note_start_time]

\* the hand's note and start time after the call: lines 290-296, 306-309
melody_state(current_note, note_start_time, target_note, jerk, current_time) ==
    IF triggers(jerk)
    THEN [note |-> target_note, time |-> current_time]
    ELSE IF current_note # NoNote /\ note_expired(current_time, note_start_time)
    THEN [note |-> NoNote, time |-> note_start_time]
    ELSE [note |-> current_note, time |-> note_start_time]

\* the melody velocity rounded to the nearest integer
update_melody_hand_rounded(current_note, note_start_time, hand_y, jerk, arm_velocity, elbow_angle, base_note, channel, current_time) ==
    LET target_note == hand_y_to_note(hand_y, base_note)
        velocity == Max(1, Min(127, Round(6000 + arm_velocity * 67, 100)))
        bend == Max(0, Min(16383, Trunc(819200 + elbow_angle * 2048, 100)))
        st == melody_state(current_note, note_start_time, target_note, jerk, current_time)
    IN  [note |-> st.note,
         time |-> st.time,
         msgs |-> melody_msgs(current_note, note_start_time, target_note, velocity,
                              bend, jerk, channel, current_time)]

update_melody_hand(current_note, note_start_time, hand_y, jerk, arm_velocity, elbow_angle, base_note, channel, current_time) ==
    LET target_note == hand_y_to_note(hand_y, base_note)
        velocity == Max(1, Min(127, Trunc(6000 + arm_velocity * 67, 100)))
        bend == Max(0, Min(16383, Trunc(819200 + elbow_angle * 2048, 100)))
        st == melody_state(current_note, note_start_time, target_note, jerk, current_time)
    IN  [note |-> st.note,
         time |-> st.time,
         msgs |-> melody_msgs(current_note, note_start_time, target_note, velocity,
                              bend, jerk, channel, current_time)]

(***************************************************************************)
(* Global expression, lines 346-361.                                       *)
(***************************************************************************)
\* the filter value rounded to the nearest integer
update_global_expression_rounded(f) ==
    LET head_tilt == Get(f, "headTilt", 0)
        cc_value == Max(0, Min(127, Round(6400 + head_tilt * 63, 100)))
    IN  <<control_change(74, cc_value, CH_MASTER)>>

update_global_expression(f) ==
    LET head_tilt == Get(f, "headTilt", 0)
        cc_value == Max(0, Min(127, Trunc(6400 + head_tilt * 63, 100)))
    IN  <<control_change(74, cc_value, CH_MASTER)>>

(***************************************************************************)
(* Inputs.  A descriptor mapping is a function from keys to hundredths.    *)
(* A body posture gives the lower-body and head descriptors, a gesture the *)
(* four descriptors of one hand.                                           *)
(***************************************************************************)
\* <<feetCenterX, hipTilt, kneeAngle, headTilt>>
Bodies == { <<-10, -100,   0, -100>>,
            <<  0,    0, 100,    0>>,
            << 24,   50,  50,  100>>,
            << 25,    0, 100,    0>>,
            << 35,   50,  50,   50>>,
            << 49,  -50,   0,    0>>,
            << 50,    0, 100,    0>>,
            << 74,   25, 100,   50>>,
            << 75,  100,  50, -100>>,
            << 99,    0,   0,    0>>,
            <<100,  -50, 100,  100>> }

\* the posture every pair of gestures is combined with
GestureBodies == { <<35, 50, 50, 50>> }

\* <<handY, jerk, armVelocity, elbowHipAngle>>
Still == <<50, 0, 0, 0>>
Gestures == { <<99,  40, 100,  50>>,
              << 0,  41,   0,  25>>,
              <<99, 100, 100, 100>> }

Features(b, r, l) ==
    [k \in {"feetCenterX", "hipTilt", "kneeAngle", "headTilt",
            "rightHandY", "rightHandJerk", "rightArmVelocity", "rightElbowHipAngle",
            "leftHandY", "leftHandJerk", "leftArmVelocity", "leftElbowHipAngle"} |->
        CASE k = "feetCenterX" -> b[1]
          [] k = "hipTilt" -> b[2]
          [] k = "kneeAngle" -> b[3]
          [] k = "headTilt" -> b[4]
          [] k = "rightHandY" -> r[1]
          [] k = "rightHandJerk" -> r[2]
          [] k = "rightArmVelocity" -> r[3]
          [] k = "rightElbowHipAngle" -> r[4]
          [] k = "leftHandY" -> l[1]
          [] k = "leftHandJerk" -> l[2]
          [] k = "leftArmVelocity" -> l[3]
          [] k = "leftElbowHipAngle" -> l[4]]

\* the empty mapping: every features.get falls back to its default
EmptyFeatures == [k \in {} |-> 0]

\* a posture and a right-hand gesture whose products with the scale factors
\* of lines 172, 192, 200, 275, 314 and 357 are not whole numbers
Fractional == Features(<<60, 1, 30, 30>>, <<50, 100, 50, 2>>, Still)

FeatureSet ==
    {EmptyFeatures, Fractional}
    \cup {Features(b, Still, Still) : b \in Bodies}
    \cup {Features(b, r, l) : b \in GestureBodies, r \in Gestures, l \in Gestures}

\* seconds (in hundredths) the clock may advance between two calls
ClockSteps == {15}

\* the clock reading, in the frame of a moving epoch (see Tick)
MaxTime == 45

(***************************************************************************)
(* vision_processor/features.py (class FeatureExtractor).                  *)
(*                                                                         *)
(* Numbers.  Landmark coordinates are carried in hundredths.  Descriptor   *)
(* values are carried in millionths (1.0 is One), so that the five raw     *)
(* descriptors are exact; a distance is a square root taken to four         *)
(* decimals, and a smoothed value is rounded to the nearest millionth.     *)
(* Python's None is the empty tuple and any other value v is <<v>>.        *)
(***************************************************************************)
None == <<>>
Some(v) == <<v>>

\* the float 1.0, in millionths
One == 1000000

\* line 16: 0.3, in tenths
smoothing_factor == 3

DescriptorKeys ==
    {"energy", "symmetry", "smoothness", "armAngle", "verticalExtension",
     "feetCenterX", "hipTilt", "kneeAngle", "rightHandY", "leftHandY",
     "rightHandJerk", "leftHandJerk", "rightArmVelocity", "leftArmVelocity",
     "rightElbowHipAngle", "leftElbowHipAngle", "headTilt"}

\* _empty_features, lines 344-366
empty_features ==
    [key \in DescriptorKeys |->
        CASE key \in {"smoothness", "verticalExtension", "feetCenterX",
                      "rightHandY", "leftHandY"} -> One \div 2
          [] key = "kneeAngle" -> One
          [] OTHER -> 0]

\* landmarks[idx], list indices starting at 0
At(landmarks, idx) == landmarks[idx + 1]

RECURSIVE SqrtBetween(_, _, _)
SqrtBetween(n, lo, hi) ==
    IF lo >= hi THEN lo
    ELSE LET mid == (lo + hi + 1) \div 2
         IN  IF mid * mid <= n THEN SqrtBetween(n, mid, hi)
             ELSE SqrtBetween(n, lo, mid - 1)

\* the largest r with r * r <= n, for n below 2^31
Isqrt(n) == SqrtBetween(n, 0, 46340)

\* math.sqrt(dx ** 2 + dy ** 2) between two landmarks, in ten-thousandths
Distance(a, b) ==
    LET dx == a.x - b.x
        dy == a.y - b.y
    IN  Isqrt((dx * dx + dy * dy) * 10000)

\* _calculate_energy, lines 46-67
calculate_energy(landmarks, prev_landmarks) ==
    IF prev_landmarks = None THEN 0
    ELSE LET velocity(idx) ==
                 IF idx < Len(landmarks) /\ idx < Len(prev_landmarks[1])
                 THEN Distance(At(landmarks, idx), At(prev_landmarks[1], idx))
                 ELSE 0
             total_velocity == velocity(0) + velocity(15) + velocity(16)
                               + velocity(27) + velocity(28)
         IN  Min(total_velocity * 1000, One)

\* _calculate_symmetry, lines 69-91
calculate_symmetry(landmarks) ==
    LET left_dev == 50 - At(landmarks, 15).x
        right_dev == At(landmarks, 16).x - 50
        symmetry == right_dev - left_dev
    IN  Max(-One, Min(One, symmetry * 2 * 10000))

\* _calculate_smoothness, lines 93-115
calculate_smoothness(landmarks, prev_landmarks) ==
    IF prev_landmarks = None THEN One \div 2
    ELSE LET total_jerk == Distance(At(landmarks, 15), At(prev_landmarks[1], 15))
                           + Distance(At(landmarks, 16), At(prev_landmarks[1], 16))
         IN  Max(0, One - Min(total_jerk * 500, One))

\* _calculate_arm_angle, lines 117-136
calculate_arm_angle(landmarks) ==
    LET arm_elevation(shoulder, wrist) ==
            Max(0, Min(One, (shoulder.y - wrist.y + 50) * 10000))
        left_angle == arm_elevation(At(landmarks, 11), At(landmarks, 15))
        right_angle == arm_elevation(At(landmarks, 12), At(landmarks, 16))
    IN  (left_angle + right_angle) \div 2

\* _calculate_vertical_extension, lines 138-154: height is
\* (left ankle y + right ankle y) / 2 - nose y, times 1.5
calculate_vertical_extension(landmarks) ==
    LET ankles == At(landmarks, 27).y + At(landmarks, 28).y
        twice_height == ankles - 2 * At(landmarks, 0).y
    IN  Max(0, Min(One, twice_height * 7500))

\* the mapping calculate builds before smoothing, lines 33-39
raw_features(landmarks, prev_landmarks) ==
    [key \in {"energy", "symmetry", "smoothness", "armAngle", "verticalExtension"} |->
        CASE key = "energy" -> calculate_energy(landmarks, prev_landmarks)
          [] key = "symmetry" -> calculate_symmetry(landmarks)
          [] key = "smoothness" -> calculate_smoothness(landmarks, prev_landmarks)
          [] key = "armAngle" -> calculate_arm_angle(landmarks)
          [] key = "verticalExtension" -> calculate_vertical_extension(landmarks)]

\* line 338: alpha * value + (1 - alpha) * prev_value
Blend(value, prev_value) ==
    (smoothing_factor * value + (10 - smoothing_factor) * prev_value + 5) \div 10

\* a smoothing that keeps the raw mapping as the next call's previous one
smooth_features_keeps_raw(prev, features) ==
    IF prev = None
    THEN [returned |-> features, prev_features |-> Some(features)]
    ELSE LET smoothed == [key \in DOMAIN features |->
                            Blend(features[key], Get(prev[1], key, features[key]))]
         IN  [returned |-> smoothed, prev_features |-> Some(features)]

\* a smoothing that never replaces the mapping kept by the first call
smooth_features_keeps_seed(prev, features) ==
    IF prev = None
    THEN [returned |-> features, prev_features |-> Some(features)]
    ELSE LET smoothed == [key \in DOMAIN features |->
                            Blend(features[key], Get(prev[1], key, features[key]))]
         IN  [returned |-> smoothed, prev_features |-> prev]

\* _smooth_features, lines 329-342, on self.prev_features = prev: what it
\* returns and what it leaves in self.prev_features
smooth_features(prev, features) ==
    IF prev = None
    THEN [returned |-> features, prev_features |-> Some(features)]
    ELSE LET smoothed == [key \in DOMAIN features |->
                            Blend(features[key], Get(prev[1], key, features[key]))]
         IN  [returned |-> smoothed, prev_features |-> Some(smoothed)]

\* line 30: not landmarks or len(landmarks) < 33
invalid(landmarks) == landmarks = None \/ Len(landmarks[1]) < 33

\* a calculate that smooths the default mapping as well
calculate_smooths_defaults(prev, landmarks, prev_landmarks) ==
    IF invalid(landmarks)
    THEN smooth_features(prev, empty_features)
    ELSE smooth_features(prev, raw_features(landmarks[1], prev_landmarks))

\* calculate, lines 19-44
calculate(prev, landmarks, prev_landmarks) ==
    IF invalid(landmarks)
    THEN [returned |-> empty_features, prev_features |-> prev]
    ELSE smooth_features(prev, raw_features(landmarks[1], prev_landmarks))

(***************************************************************************)
(* Frames, after the helpers of tests/test_features.py.                    *)
(***************************************************************************)
\* make_landmark: the z and visibility entries are read by none of the
\* five calculators
Landmark(x, y) == [x |-> x, y |-> y]

Uniform(n, x, y) == [i \in 1..n |-> Landmark(x, y)]

\* make_landmarks_neutral
Neutral ==
    [i \in 1..33 |->
        CASE i - 1 = 0 -> Landmark(50, 15)
          [] i - 1 = 7 -> Landmark(54, 13)
          [] i - 1 = 8 -> Landmark(46, 13)
          [] i - 1 = 11 -> Landmark(60, 30)
          [] i - 1 = 12 -> Landmark(40, 30)
          [] i - 1 = 13 -> Landmark(65, 45)
          [] i - 1 = 14 -> Landmark(35, 45)
          [] i - 1 = 15 -> Landmark(65, 55)
          [] i - 1 = 16 -> Landmark(35, 55)
          [] i - 1 = 23 -> Landmark(55, 60)
          [] i - 1 = 24 -> Landmark(45, 60)
          [] i - 1 = 25 -> Landmark(55, 75)
          [] i - 1 = 26 -> Landmark(45, 75)
          [] i - 1 = 27 -> Landmark(55, 90)
          [] i - 1 = 28 -> Landmark(45, 90)
          [] OTHER -> Landmark(50, 50)]

\* shift_landmarks
Shift(landmarks, dx, dy) ==
    [i \in 1..Len(landmarks) |-> Landmark(landmarks[i].x + dx, landmarks[i].y + dy)]

\* both wrists raised to y
WristsAt(landmarks, y) ==
    [landmarks EXCEPT ![16] = Landmark(landmarks[16].x, y),
                      ![17] = Landmark(landmarks[17].x, y)]

\* the right wrist moved by (-0.03, -0.04)
Reach == [Neutral EXCEPT ![17] = Landmark(32, 51)]

\* the calls made with fewer than 33 landmarks: <<landmarks, prev_landmarks>>
InvalidCalls ==
    { <<None, None>>,
      <<Some(<<>>), None>>,
      <<Some(Uniform(32, 50, 50)), Some(Neutral)>> }

ValidCalls ==
    { <<Some(Neutral), None>>,
      <<Some(Neutral), Some(Neutral)>>,
      <<Some(WristsAt(Neutral, 5)), None>>,
      <<Some(WristsAt(Neutral, 10)), Some(Neutral)>>,
      <<Some(Reach), Some(Neutral)>>,
      <<Some(Shift(Neutral, 30, -20)), Some(Neutral)>>,
      <<Some(Uniform(33, 0, 0)), None>>,
      <<Some(Uniform(33, 100, 100)), Some(Uniform(33, 0, 0))>>,
      <<Some(Uniform(33, -5, -5)), None>>,
      <<Some(Uniform(33, 105, 105)), None>> }

CalculateCalls == InvalidCalls \cup ValidCalls

\* calls of calculate made in an arbitrary order
MaxCalls == 3

\* further calls that present the latest frame again
MaxRepeats == 20

(***************************************************************************)
(* State.                                                                  *)
(***************************************************************************)
VARIABLES
    port,                     \* "open", or "none" when _open_port failed
    current_chord,
    current_chord_notes,
    melody_right_note,
    melody_left_note,
    melody_right_note_time,
    melody_left_note_time,
    now,                      \* what time.time() returns
    op,                       \* the call this state results from
    features,                 \* the argument of that call (empty unless update)
    sent,                     \* the messages that call passed to port.send, in order
    sounding,                 \* per channel, the note left on by the whole message trace
    well_paired,              \* the trace so far never broke note-on/note-off alternation
    scale_call,               \* a call of _hand_y_to_note: its arguments and its result
    prev_features,            \* FeatureExtractor: the mapping kept for smoothing, or None
    call,                     \* the arguments of the latest calculate call
    returned,                 \* what that call returned
    calls,                    \* calculate calls made so far
    last_valid,               \* what the latest call on a valid frame returned, or None
    last_raw,                 \* the unsmoothed mapping of that call, or None
    presented,                \* consecutive valid calls that had that unsmoothed mapping
    expression_call,          \* a call of _apply_chord_expression: arguments and messages
    client,                   \* OSCSender: the latest call and what it passed to self.client
    geometry_call,            \* a call of a limb calculator: its frame and its outcome
    memory                    \* the objects a caller and its extractor refer to

vars == <<port, current_chord, current_chord_notes,
          melody_right_note, melody_left_note,
          melody_right_note_time, melody_left_note_time,
          now, op, features, sent, sounding, well_paired, scale_call,
          prev_features, call, returned, calls, last_valid, last_raw, presented,
          expression_call, client, geometry_call, memory>>

\* the components that are exercised on their own
standalone == <<expression_call, client, geometry_call, memory>>

extractor == <<prev_features, call, returned, calls, last_valid, last_raw, presented>>

sender == <<port, current_chord, current_chord_notes,
            melody_right_note, melody_left_note,
            melody_right_note_time, melody_left_note_time,
            now, features, sent, sounding, well_paired>>

mapper == <<current_chord, current_chord_notes, melody_right_note, melody_left_note,
            melody_right_note_time, melody_left_note_time>>

(***************************************************************************)
(* The receiving end of the trace: which note each channel is left with.   *)
(***************************************************************************)
\* the note a channel is left with by one note event
Left(m) == IF m.type = "note_on" THEN m.note ELSE NoNote

\* the note events of msgs on channel ch, in order
Heard(msgs, ch) ==
    SelectSeq(msgs, LAMBDA m : m.type \in {"note_on", "note_off"} /\ m.channel = ch)

\* the note sounding on ch after msgs
SoundingAfter(msgs, ch) ==
    LET ev == Heard(msgs, ch)
    IN  IF ev = <<>> THEN sounding[ch] ELSE Left(ev[Len(ev)])

\* every note-on of msgs on ch finds the channel silent, and every note-off
\* finds its own note sounding
Alternates(msgs, ch) ==
    LET ev == Heard(msgs, ch)
    IN  \A i \in 1..Len(ev) :
            LET before == IF i = 1 THEN sounding[ch] ELSE Left(ev[i - 1])
            IN  IF ev[i].type = "note_on" THEN before = NoNote ELSE before = ev[i].note

Emit(msgs) ==
    /\ sent' = msgs
    /\ sounding' = [ch \in 0..5 |-> SoundingAfter(sent', ch)]
    /\ well_paired' = (well_paired /\ \A ch \in 0..5 : Alternates(sent', ch))

(***************************************************************************)
(* Actions.                                                                *)
(***************************************************************************)
NoScaleCall == [hand_y |-> 0, base_note |-> 0, note |-> NoNote]

SenderInit ==
    /\ port \in {"open", "none"}
    /\ current_chord = NoChord
    /\ current_chord_notes = <<>>
    /\ melody_right_note = NoNote
    /\ melody_left_note = NoNote
    /\ melody_right_note_time = 0
    /\ melody_left_note_time = 0
    /\ now = MaxTime
    /\ op = "init"
    /\ features = EmptyFeatures
    /\ sent = <<>>
    /\ sounding = [ch \in 0..5 |-> NoNote]
    /\ well_paired = TRUE

\* FeatureExtractor.__init__, features.py lines 14-17, and no call made yet
ExtractorInit ==
    /\ prev_features = None
    /\ call = [landmarks |-> None, prev_landmarks |-> None]
    /\ returned = EmptyFeatures
    /\ calls = 0
    /\ last_valid = None
    /\ last_raw = None
    /\ presented = 0

\* no call made yet of _apply_chord_expression, of an OSCSender method or of
\* a limb calculator
NoExpressionCall == [hip_tilt |-> 0, knee_angle |-> 0, msgs |-> <<>>]

NoClientCall == [method |-> "init", features |-> <<>>, send_message |-> <<>>, send |-> <<>>]

NoGeometryCall ==
    [calculator |-> "none", side |-> "none", landmarks |-> None,
     outcome |-> [raised |-> "", value |-> 0, legs |-> <<>>]]

\* no object allocated: no frame, no mapping, self.prev_features = None
NoMemory == [objects |-> <<>>, frames |-> {}, returned |-> <<>>, prev_features |-> 0]

StandaloneInit ==
    /\ expression_call = NoExpressionCall
    /\ client = NoClientCall
    /\ geometry_call = NoGeometryCall
    /\ memory = NoMemory

Init ==
    /\ SenderInit
    /\ scale_call = NoScaleCall
    /\ ExtractorInit
    /\ StandaloneInit

\* an update whose left-hand pass reads and writes the right hand's note
\* and start time
Update_crossed(f) ==
    /\ op' = "update"
    /\ features' = f
    /\ UNCHANGED <<port, now, scale_call, extractor, standalone>>
    /\ IF port = "none"
       THEN /\ Emit(<<>>)
            /\ UNCHANGED mapper
       ELSE \E current_time \in {now} :
            \E c \in {update_chords(current_chord, current_chord_notes, f)} :
            \E r \in {update_melody_hand(melody_right_note, melody_right_note_time,
                         Get(f, "rightHandY", 50), Get(f, "rightHandJerk", 0),
                         Get(f, "rightArmVelocity", 0), Get(f, "rightElbowHipAngle", 0),
                         MELODY_RIGHT_BASE, CH_MELODY_RIGHT, current_time)} :
            \E l \in {update_melody_hand(r.note, r.time,
                         Get(f, "leftHandY", 50), Get(f, "leftHandJerk", 0),
                         Get(f, "leftArmVelocity", 0), Get(f, "leftElbowHipAngle", 0),
                         MELODY_LEFT_BASE, CH_MELODY_LEFT, current_time)} :
                /\ current_chord' = c.chord
                /\ current_chord_notes' = c.notes
                /\ melody_right_note' = l.note
                /\ melody_right_note_time' = l.time
                /\ UNCHANGED <<melody_left_note, melody_left_note_time>>
                /\ Emit(c.msgs \o r.msgs \o l.msgs \o update_global_expression(f))

\* update, lines 100-118, with _update_chords, _update_melody and
\* _update_global_expression in the order the source calls them.  Each
\* sub-call's result is bound once (\E over a singleton) and then used.
Update(f) ==
    /\ op' = "update"
    /\ features' = f
    /\ UNCHANGED <<port, now, scale_call, extractor, standalone>>
    /\ IF port = "none"
       THEN /\ Emit(<<>>)
            /\ UNCHANGED mapper
       ELSE \E current_time \in {now} :
            \E c \in {update_chords(current_chord, current_chord_notes, f)} :
            \E r \in {update_melody_hand(melody_right_note, melody_right_note_time,
                         Get(f, "rightHandY", 50), Get(f, "rightHandJerk", 0),
                         Get(f, "rightArmVelocity", 0), Get(f, "rightElbowHipAngle", 0),
                         MELODY_RIGHT_BASE, CH_MELODY_RIGHT, current_time)} :
            \E l \in {update_melody_hand(melody_left_note, melody_left_note_time,
                         Get(f, "leftHandY", 50), Get(f, "leftHandJerk", 0),
                         Get(f, "leftArmVelocity", 0), Get(f, "leftElbowHipAngle", 0),
                         MELODY_LEFT_BASE, CH_MELODY_LEFT, current_time)} :
                /\ current_chord' = c.chord
                /\ current_chord_notes' = c.notes
                /\ melody_right_note' = r.note
                /\ melody_right_note_time' = r.time
                /\ melody_left_note' = l.note
                /\ melody_left_note_time' = l.time
                /\ Emit(c.msgs \o r.msgs \o l.msgs \o update_global_expression(f))

\* a close that sends without looking at the port
Close_unguarded ==
    /\ op' = "close"
    /\ features' = EmptyFeatures
    /\ UNCHANGED <<port, now, mapper, scale_call, extractor, standalone>>
    /\ Emit(all_notes_off)

\* a close that forgets the chord
Close_forgetting ==
    /\ op' = "close"
    /\ features' = EmptyFeatures
    /\ UNCHANGED <<port, now, melody_right_note, melody_left_note,
                   melody_right_note_time, melody_left_note_time,
                   scale_call, extractor, standalone>>
    /\ current_chord' = NoChord
    /\ current_chord_notes' = <<>>
    /\ IF port = "none" THEN Emit(<<>>) ELSE Emit(all_notes_off)

\* a close that turns the melody notes off and forgets them
Close_releasing ==
    /\ op' = "close"
    /\ features' = EmptyFeatures
    /\ UNCHANGED <<port, now, current_chord, current_chord_notes,
                   melody_right_note_time, melody_left_note_time,
                   scale_call, extractor, standalone>>
    /\ melody_right_note' = NoNote
    /\ melody_left_note' = NoNote
    /\ IF port = "none" THEN Emit(<<>>)
       ELSE Emit((IF melody_right_note # NoNote
                  THEN <<note_off(melody_right_note, CH_MELODY_RIGHT)>> ELSE <<>>)
                 \o (IF melody_left_note # NoNote
                     THEN <<note_off(melody_left_note, CH_MELODY_LEFT)>> ELSE <<>>)
                 \o all_notes_off)

\* close, lines 93-98: self.port keeps referring to the port object
Close ==
    /\ op' = "close"
    /\ features' = EmptyFeatures
    /\ UNCHANGED <<port, now, mapper, scale_call, extractor, standalone>>
    /\ IF port = "none" THEN Emit(<<>>) ELSE Emit(all_notes_off)

\* The wall clock advances by d between calls.  time.time() is far from its
\* epoch from the start, and only the difference between the clock and a
\* stored start time is ever read (line 304).  The model therefore keeps the
\* clock reading at MaxTime and moves the epoch instead: the stored times go
\* down by d, and a stored time of 0 stands for every start time more than
\* base_note_duration in the past (MaxTime exceeds base_note_duration).
Tick(d) ==
    /\ op' = "tick"
    /\ features' = EmptyFeatures
    /\ UNCHANGED <<port, now, current_chord, current_chord_notes,
                   melody_right_note, melody_left_note, scale_call, extractor, standalone>>
    /\ Emit(<<>>)
    /\ melody_right_note_time' = Max(melody_right_note_time - d, 0)
    /\ melody_left_note_time' = Max(melody_left_note_time - d, 0)

DoUpdate == \E f \in FeatureSet : Update(f)
DoTick == \E d \in ClockSteps : Tick(d)

Next == DoUpdate \/ Close \/ DoTick

Spec == Init /\ [][Next]_vars

\* update keeps being called and the clock keeps advancing
FairSpec == Spec /\ WF_vars(DoUpdate) /\ WF_vars(DoTick)

(***************************************************************************)
(* _hand_y_to_note on its own.  The function reads no state of the sender. *)
(* A call is made with any hand height and either hand's base note; the    *)
(* next call is made one hundredth higher with the same base note.         *)
(***************************************************************************)
\* hand heights run from -MaxHandY to MaxHandY hundredths
MaxHandY == 120

BaseNotes == {MELODY_RIGHT_BASE, MELODY_LEFT_BASE}

ScaleInit ==
    /\ SenderInit
    /\ port = "open"
    /\ scale_call \in [hand_y : -MaxHandY..MaxHandY, base_note : BaseNotes, note : {NoNote}]
    /\ ExtractorInit
    /\ StandaloneInit

\* the call returns
ToNote ==
    /\ scale_call.note = NoNote
    /\ op' = "note"
    /\ scale_call' = [scale_call EXCEPT !.note = hand_y_to_note(scale_call.hand_y, scale_call.base_note)]
    /\ UNCHANGED <<sender, extractor, standalone>>

\* the same call with the hand one hundredth higher
Raise ==
    /\ scale_call.note # NoNote
    /\ scale_call.hand_y < MaxHandY
    /\ op' = "note"
    /\ scale_call' = [hand_y |-> scale_call.hand_y + 1,
                      base_note |-> scale_call.base_note,
                      note |-> hand_y_to_note(scale_call.hand_y + 1, scale_call.base_note)]
    /\ UNCHANGED <<sender, extractor, standalone>>

ScaleNext == ToNote \/ Raise

ScaleSpec == ScaleInit /\ [][ScaleNext]_vars

(***************************************************************************)
(* _apply_chord_expression on its own.  It is given the hipTilt and the   *)
(* kneeAngle of the mapping update was called with and reads nothing else; *)
(* update accepts any mapping, so the two values run past the ends of      *)
(* their declared ranges.                                                  *)
(***************************************************************************)
\* how far, in hundredths, a value runs past either end of its range
MaxExcess == 50

HipTilts == {-100 - MaxExcess, -100, -50, 0, 1, 50, 100, 100 + MaxExcess}

KneeAngles == (0 - MaxExcess)..(100 + MaxExcess)

ExpressionInit ==
    /\ SenderInit
    /\ port = "open"
    /\ scale_call = NoScaleCall
    /\ ExtractorInit
    /\ expression_call \in [hip_tilt : HipTilts, knee_angle : KneeAngles, msgs : {<<>>}]
    /\ client = NoClientCall
    /\ geometry_call = NoGeometryCall
    /\ memory = NoMemory

\* the call sends its six messages
Express ==
    /\ expression_call.msgs = <<>>
    /\ op' = "expression"
    /\ expression_call' = [expression_call EXCEPT
            !.msgs = apply_chord_expression(expression_call.hip_tilt, expression_call.knee_angle)]
    /\ UNCHANGED <<sender, scale_call, extractor, client, geometry_call, memory>>

ExpressionNext == Express

ExpressionSpec == ExpressionInit /\ [][ExpressionNext]_vars

(***************************************************************************)
(* FeatureExtractor on its own: calls of calculate on one extractor.       *)
(***************************************************************************)
ExtractorSpecInit ==
    /\ SenderInit
    /\ port = "open"
    /\ scale_call = NoScaleCall
    /\ ExtractorInit
    /\ StandaloneInit

\* one call calculate(landmarks, prev_landmarks), features.py lines 19-44
Calculate(landmarks, prev_landmarks) ==
    /\ op' = "calculate"
    /\ call' = [landmarks |-> landmarks, prev_landmarks |-> prev_landmarks]
    /\ calls' = calls + 1
    /\ \E c \in {calculate(prev_features, landmarks, prev_landmarks)} :
          /\ returned' = c.returned
          /\ prev_features' = c.prev_features
    /\ IF invalid(landmarks)
       THEN UNCHANGED <<last_valid, last_raw, presented>>
       ELSE /\ last_valid' = Some(returned')
            /\ last_raw' = Some(raw_features(landmarks[1], prev_landmarks))
            /\ presented' = IF last_raw' = last_raw THEN presented + 1 ELSE 1
    /\ UNCHANGED <<sender, scale_call, standalone>>

\* calls in any order
DoCalculate ==
    /\ calls < MaxCalls
    /\ \E c \in CalculateCalls : Calculate(c[1], c[2])

ExtractorNext == DoCalculate

ExtractorSpec == ExtractorSpecInit /\ [][ExtractorNext]_vars

\* a first call, then a valid frame that is presented again and again
First ==
    /\ calls = 0
    /\ \E c \in CalculateCalls : Calculate(c[1], c[2])

Turn ==
    /\ calls = 1
    /\ \E c \in ValidCalls : Calculate(c[1], c[2])

Again ==
    /\ calls >= 2
    /\ presented < MaxRepeats
    /\ Calculate(call.landmarks, call.prev_landmarks)

RepeatNext == First \/ Turn \/ Again

RepeatSpec == ExtractorSpecInit /\ [][RepeatNext]_vars

(***************************************************************************)
(* The pipeline of tests/integration/test_integration.py, TestPipelineMIDI: *)
(* one extractor and one sender on an open port; each frame is passed to   *)
(* calculate and the mapping it returns is passed to update.               *)
(***************************************************************************)
\* make_landmarks_neutral with both ankles moved to x, lines 555-557
FeetAt(x) == [Neutral EXCEPT ![28] = Landmark(x, 90), ![29] = Landmark(x, 90)]

PipelineCalls ==
    { <<Some(FeetAt(10)), None>>,
      <<Some(FeetAt(90)), None>>,
      <<Some(Neutral), None>>,
      <<Some(FeetAt(10)), Some(Neutral)>>,
      <<Some(FeetAt(90)), Some(FeetAt(10))>>,
      <<None, None>> }

\* the keys update reads with features.get, midi_sender.py lines 132-134,
\* 223-226, 236-239 and 353
MidiKeys ==
    {"feetCenterX", "hipTilt", "kneeAngle", "headTilt",
     "rightHandY", "leftHandY", "rightHandJerk", "leftHandJerk",
     "rightArmVelocity", "leftArmVelocity", "rightElbowHipAngle", "leftElbowHipAngle"}

\* the mapping calculate returned as update reads it: the entries under the
\* keys update asks for, from millionths to the hundredths update works in
AsFeatures(m) == [key \in (DOMAIN m) \cap MidiKeys |-> m[key] \div (One \div 100)]

\* features = extractor.calculate(landmarks)
Extract ==
    /\ op # "calculate"
    /\ calls < MaxCalls
    /\ \E c \in PipelineCalls : Calculate(c[1], c[2])

\* sender.update(features)
Feed ==
    /\ op = "calculate"
    /\ Update(AsFeatures(returned))

PipelineNext == Extract \/ Feed

PipelineSpec == ExtractorSpecInit /\ [][PipelineNext]_vars

(***************************************************************************)
(* OSCSender, osc_sender.py.  A mapping is the sequence of its items in    *)
(* insertion order, each <<name, value>>; a value is a Python int or a     *)
(* Python float, the float in millionths.  self.client is represented by   *)
(* the calls the latest method made of its send_message and send.          *)
(***************************************************************************)
PyInt(n) == [kind |-> "int", value |-> n]
PyFloat(v) == [kind |-> "float", value |-> v]

\* float(value), lines 33 and 59
float(value) == IF value.kind = "int" THEN PyFloat(value.value * One) ELSE value

\* f"/motion/{name}", lines 32 and 58
address(name) == "/motion/" \o name

\* a send_features that passes the value on as it is
send_features_uncoerced(mapping) ==
    [i \in 1..Len(mapping) |-> <<address(mapping[i][1]), mapping[i][2]>>]

\* send_features, lines 24-33: the calls of self.client.send_message
send_features(mapping) ==
    [i \in 1..Len(mapping) |-> <<address(mapping[i][1]), float(mapping[i][2])>>]

\* the messages send_bundle builds, lines 57-61
bundle_content(mapping) ==
    [i \in 1..Len(mapping) |->
        [address |-> address(mapping[i][1]), args |-> <<float(mapping[i][2])>>]]

\* a send_bundle that sends one bundle for each item
send_bundle_per_item(mapping) ==
    [i \in 1..Len(mapping) |->
        [timestamp |-> "IMMEDIATELY", content |-> <<bundle_content(mapping)[i]>>]]

\* send_bundle, lines 45-63: the calls of self.client.send
send_bundle(mapping) ==
    <<[timestamp |-> "IMMEDIATELY", content |-> bundle_content(mapping)]>>

\* the items a mapping has at most
MaxItems == 2

\* names and values of the OSC tests, test_integration.py lines 90-124
OscNames == {"energy", "symmetry", "smoothness", "armAngle"}

OscValues == {PyFloat(500000), PyFloat(-200000), PyInt(1)}

\* the mappings of up to MaxItems items, no name twice
OscMappings ==
    {m \in UNION {[1..n -> OscNames \X OscValues] : n \in 0..MaxItems} :
        \A i, j \in 1..Len(m) : m[i][1] = m[j][1] => i = j}

\* OSCSender.__init__, lines 11-22: the client has been asked nothing
OscInit == ExtractorSpecInit

SendFeatures(f) ==
    /\ op' = "send_features"
    /\ client' = [method |-> "send_features", features |-> f,
                  send_message |-> send_features(f), send |-> <<>>]
    /\ UNCHANGED <<sender, scale_call, extractor, expression_call, geometry_call, memory>>

SendBundle(f) ==
    /\ op' = "send_bundle"
    /\ client' = [method |-> "send_bundle", features |-> f,
                  send_message |-> <<>>, send |-> send_bundle(f)]
    /\ UNCHANGED <<sender, scale_call, extractor, expression_call, geometry_call, memory>>

DoSendFeatures == \E f \in OscMappings : SendFeatures(f)
DoSendBundle == \E f \in OscMappings : SendBundle(f)

OscNext == DoSendFeatures \/ DoSendBundle

OscSpec == OscInit /\ [][OscNext]_vars

(***************************************************************************)
(* The limb calculators _calculate_knee_angle and _calculate_hand_y,       *)
(* features.py lines 185-239, on their own.  Coordinates are in            *)
(* hundredths, angles in ten-thousandths of a radian, results in           *)
(* millionths.  An outcome is the value returned, or the exception raised. *)
(***************************************************************************)
Returns(value, legs) == [raised |-> "", value |-> value, legs |-> legs]

Raises(exception) == [raised |-> exception, value |-> 0, legs |-> <<>>]

\* math.pi / 2 and math.pi, in ten-thousandths of a radian
HalfPi == 15708

Pi == 31416

\* n / d to the nearest integer, d > 0
Nearest(n, d) ==
    IF n >= 0 THEN (2 * n + d) \div (2 * d) ELSE 0 - ((2 * (0 - n) + d) \div (2 * d))

\* cos of an angle in 0..Pi, in ten-thousandths: the series
\* 1 - a^2/2! + a^4/4! - ... + a^16/16!, nested, and never below -1
Cos(angle) ==
    LET x2 == Nearest(angle * angle, 10000)
        step(t, k) == 10000 - Nearest(x2 * t, 10000 * k * (k - 1))
    IN  Max(-10000,
            step(step(step(step(step(step(step(step(10000, 16), 14), 12), 10), 8), 6), 4), 2))

RECURSIVE AcosBetween(_, _, _)
AcosBetween(c, lo, hi) ==
    IF lo >= hi THEN lo
    ELSE LET mid == (lo + hi + 1) \div 2
         IN  IF Cos(mid) >= c THEN AcosBetween(c, mid, hi)
             ELSE AcosBetween(c, lo, mid - 1)

\* math.acos of a cosine in ten-thousandths: the greatest angle of 0..Pi
\* whose cosine is not below it.  A cosine known to four decimals gives the
\* angle of a nearly straight leg to about a hundredth of a radian.
Acos(c) == AcosBetween(c, 0, Pi)

\* knee_angle_single, lines 190-210; the squared magnitudes are exact, and
\* their product is zero exactly when mag1 * mag2 is
knee_angle_single(hip, knee, ankle) ==
    LET v1 == Landmark(hip.x - knee.x, hip.y - knee.y)
        v2 == Landmark(ankle.x - knee.x, ankle.y - knee.y)
        dot == v1.x * v2.x + v1.y * v2.y
        mag1_squared == v1.x * v1.x + v1.y * v1.y
        mag2_squared == v2.x * v2.x + v2.y * v2.y
    IN  IF mag1_squared * mag2_squared = 0 THEN One
        ELSE LET magnitudes == Isqrt(mag1_squared * mag2_squared * 100)
                 quotient == IF dot >= 0 THEN (dot * 100000) \div magnitudes
                             ELSE 0 - ((0 - dot) * 100000) \div magnitudes
                 cos_angle == Max(-10000, Min(10000, quotient))
                 angle == Acos(cos_angle)
                 normalized == (((angle - HalfPi) * 10000) \div HalfPi) * 100
             IN  Max(0, Min(One, normalized))

\* _calculate_knee_angle, lines 185-215
calculate_knee_angle(landmarks) ==
    LET left_angle == knee_angle_single(At(landmarks, 23), At(landmarks, 25), At(landmarks, 27))
        right_angle == knee_angle_single(At(landmarks, 24), At(landmarks, 26), At(landmarks, 28))
    IN  Returns((left_angle + right_angle) \div 2, <<left_angle, right_angle>>)

\* n / d to the nearest millionth, d # 0
Ratio(n, d) ==
    LET num == IF d < 0 THEN 0 - n ELSE n
        den == IF d < 0 THEN 0 - d ELSE d
    IN  IF num >= 0 THEN (num * One + den \div 2) \div den
        ELSE 0 - (((0 - num) * One + den \div 2) \div den)

\* _calculate_hand_y, lines 219-239: line 237 divides by max_y - min_y
calculate_hand_y(landmarks, side) ==
    LET wrist_idx == IF side = "right" THEN 16 ELSE 15
        hip_idx == IF side = "right" THEN 24 ELSE 23
        wrist == At(landmarks, wrist_idx)
        hip == At(landmarks, hip_idx)
        nose == At(landmarks, 0)
        min_y == nose.y - 20
        max_y == hip.y + 10
    IN  IF max_y - min_y = 0 THEN Raises("ZeroDivisionError")
        ELSE Returns(Max(0, Min(One, Ratio(max_y - wrist.y, max_y - min_y))), <<>>)

\* Frames: make_landmarks_neutral with the nose, the right wrist and the
\* left knee moved.  With the hips at y = 0.60 the sums hip.y + 0.1 and
\* nose.y - 0.2 are the same binary floating-point number exactly when the
\* nose is at y = 0.90, as they are the same number of hundredths.
NoseYs == {15, 50, 90}

WristYs == {5, 30, 55, 70, 95}

\* the left knee in place, pushed forward (test_features.py lines 441-442),
\* on the hip, on the ankle, and folded back beside the hip-ankle line
LeftKnees ==
    {Landmark(55, 75), Landmark(62, 72), Landmark(55, 60), Landmark(55, 90), Landmark(70, 75)}

Posed(nose_y, wrist_y, knee) ==
    [Neutral EXCEPT ![1] = Landmark(50, nose_y),
                    ![17] = Landmark(35, wrist_y),
                    ![26] = knee]

\* test_zero_length_vectors_no_crash, lines 452-457, and the posed frames
GeometryFrames ==
    {Uniform(33, 50, 50)}
    \cup {Posed(n, w, k) : n \in NoseYs, w \in WristYs, k \in LeftKnees}

GeometryInit == ExtractorSpecInit

KneeAngle(landmarks) ==
    /\ op' = "geometry"
    /\ geometry_call' = [calculator |-> "knee_angle", side |-> "both",
                         landmarks |-> Some(landmarks),
                         outcome |-> calculate_knee_angle(landmarks)]
    /\ UNCHANGED <<sender, scale_call, extractor, expression_call, client, memory>>

HandY(landmarks, side) ==
    /\ op' = "geometry"
    /\ geometry_call' = [calculator |-> "hand_y", side |-> side,
                         landmarks |-> Some(landmarks),
                         outcome |-> calculate_hand_y(landmarks, side)]
    /\ UNCHANGED <<sender, scale_call, extractor, expression_call, client, memory>>

DoKneeAngle == \E landmarks \in GeometryFrames : KneeAngle(landmarks)
DoHandY == \E landmarks \in GeometryFrames, side \in {"right", "left"} : HandY(landmarks, side)

GeometryNext == DoKneeAngle \/ DoHandY

GeometrySpec == GeometryInit /\ [][GeometryNext]_vars

(***************************************************************************)
(* FeatureExtractor and its caller as objects.  memory.objects is the heap: *)
(* an object is referred to by its index, None by 0.  A frame is one       *)
(* object, the list of its landmarks; a mapping is one object.  The caller *)
(* keeps the frames it built and every mapping calculate returned to it;   *)
(* the extractor keeps self.prev_features.                                 *)
(***************************************************************************)
\* the frames the caller has built before the first call
HeapFrames == <<Neutral, Reach, WristsAt(Neutral, 10), Uniform(32, 50, 50)>>

Deref(objects, ref) == IF ref = 0 THEN None ELSE Some(objects[ref])

\* a calculate that keeps the mapping it returns as self.prev_features and
\* smooths into it
calculate_on_heap_in_place(objects, prev_ref, landmarks_ref, prev_landmarks_ref) ==
    LET landmarks == Deref(objects, landmarks_ref)
        c == calculate(Deref(objects, prev_ref), landmarks, Deref(objects, prev_landmarks_ref))
    IN  IF invalid(landmarks)
        THEN [objects |-> Append(objects, c.returned),
              returned |-> Len(objects) + 1,
              prev_features |-> prev_ref]
        ELSE IF prev_ref = 0
        THEN [objects |-> Append(objects, c.returned),
              returned |-> Len(objects) + 1,
              prev_features |-> Len(objects) + 1]
        ELSE [objects |-> [objects EXCEPT ![prev_ref] = c.returned],
              returned |-> prev_ref,
              prev_features |-> prev_ref]

\* calculate, lines 19-44, with _smooth_features, lines 329-342, and
\* _empty_features, lines 344-366: the arguments are read; the mapping
\* returned is a new dict (line 346, lines 33 and 332, or line 335), and
\* self.prev_features becomes a copy of it (lines 331 and 341)
calculate_on_heap(objects, prev_ref, landmarks_ref, prev_landmarks_ref) ==
    LET landmarks == Deref(objects, landmarks_ref)
        c == calculate(Deref(objects, prev_ref), landmarks, Deref(objects, prev_landmarks_ref))
    IN  IF invalid(landmarks)
        THEN [objects |-> Append(objects, c.returned),
              returned |-> Len(objects) + 1,
              prev_features |-> prev_ref]
        ELSE [objects |-> objects \o <<c.returned, c.prev_features[1]>>,
              returned |-> Len(objects) + 1,
              prev_features |-> Len(objects) + 2]

HeapInit ==
    /\ SenderInit
    /\ port = "open"
    /\ scale_call = NoScaleCall
    /\ ExtractorInit
    /\ expression_call = NoExpressionCall
    /\ client = NoClientCall
    /\ geometry_call = NoGeometryCall
    /\ memory = [objects |-> HeapFrames, frames |-> 1..Len(HeapFrames),
                 returned |-> <<>>, prev_features |-> 0]

\* features = extractor.calculate(landmarks, prev_landmarks), the caller
\* keeping the mapping
CalculateOnHeap(landmarks_ref, prev_landmarks_ref) ==
    /\ op' = "calculate"
    /\ \E c \in {calculate_on_heap(memory.objects, memory.prev_features,
                                    landmarks_ref, prev_landmarks_ref)} :
          memory' = [objects |-> c.objects,
                     frames |-> memory.frames,
                     returned |-> Append(memory.returned, c.returned),
                     prev_features |-> c.prev_features]
    /\ UNCHANGED <<sender, scale_call, extractor, expression_call, client, geometry_call>>

DoCalculateOnHeap ==
    /\ Len(memory.returned) < MaxCalls
    /\ \E l \in {0} \cup memory.frames, p \in {0} \cup memory.frames :
          CalculateOnHeap(l, p)

HeapNext == DoCalculateOnHeap

HeapSpec == HeapInit /\ [][HeapNext]_vars

TypeOK ==
    /\ port \in {"open", "none"}
    /\ current_chord \in ChordNames \cup {NoChord}
    /\ melody_right_note \in 0..127 \cup {NoNote}
    /\ melody_left_note \in 0..127 \cup {NoNote}
    /\ melody_right_note_time \in 0..now
    /\ melody_left_note_time \in 0..now
    /\ op \in {"init", "update", "close", "tick", "note", "calculate", "expression",
              "send_features", "send_bundle", "geometry"}

(***************************************************************************)
(* Vocabulary of the properties.                                           *)
(***************************************************************************)
IsNoteEvent(m) == m.type \in {"note_on", "note_off"}

\* the note-on and note-off messages of msgs on the channels chs, in order
NoteEvents(msgs, chs) == SelectSeq(msgs, LAMBDA m : IsNoteEvent(m) /\ m.channel \in chs)

\* the messages of msgs of one type on one channel, in order
OfType(msgs, type, ch) == SelectSeq(msgs, LAMBDA m : m.type = type /\ m.channel = ch)

Called == op = "update" /\ port = "open"

RightJerk == Get(features, "rightHandJerk", 0)
LeftJerk == Get(features, "leftHandJerk", 0)

(***************************************************************************)
(* C2.  On every note channel the note-on and note-off messages of the     *)
(* whole trace alternate, starting with a note-on, and every note-off      *)
(* carries the note of the latest note-on of its channel: no note-off for  *)
(* a note that is not sounding, no note-on over a sounding note.           *)
(***************************************************************************)
C2_Alternation == well_paired

\* a call that turned a sounding melody note off and another on, and changed the chord
C2_Witness ==
    /\ Called
    /\ Len(NoteEvents(sent, {CH_MELODY_RIGHT})) = 2
    /\ Len(NoteEvents(sent, {CH_CHORD_ROOT})) = 2

(***************************************************************************)
(* C3.  At most one chord is active: the chord channels sound either       *)
(* nothing (no chord yet) or exactly the triad CHORDS[current_chord], root *)
(* on channel 1, third on 2, fifth on 3, and current_chord_notes is that   *)
(* triad.                                                                  *)
(***************************************************************************)
C3_OneChord ==
    \/ /\ current_chord = NoChord
       /\ current_chord_notes = <<>>
       /\ \A ch \in {1, 2, 3} : sounding[ch] = NoNote
    \/ /\ current_chord \in ChordNames
       /\ current_chord_notes = CHORDS[current_chord]
       /\ \A i \in 1..3 : sounding[i] = CHORDS[current_chord][i]

\* a call that replaced a sounding chord by chord IV
C3_Witness ==
    /\ Called
    /\ current_chord = "IV"
    /\ Len(OfType(sent, "note_off", CH_CHORD_THIRD)) = 1
    /\ sounding[CH_CHORD_THIRD] = 57

(***************************************************************************)
(* C4.  At most one melody note per hand: the note sounding on channel 4   *)
(* is exactly melody_right_note (none when it is None) and the note        *)
(* sounding on channel 5 is exactly melody_left_note.                      *)
(***************************************************************************)
C4_OneNotePerHand ==
    /\ sounding[CH_MELODY_RIGHT] = melody_right_note
    /\ sounding[CH_MELODY_LEFT] = melody_left_note

\* a call in which the right note timed out while the left one was retriggered
C4_Witness ==
    /\ Called
    /\ melody_right_note = NoNote
    /\ Len(OfType(sent, "note_off", CH_MELODY_RIGHT)) = 1
    /\ melody_left_note # NoNote
    /\ Len(NoteEvents(sent, {CH_MELODY_LEFT})) = 2

(***************************************************************************)
(* C5.  An update whose feetCenterX zone differs from current_chord (or    *)
(* with no chord yet) sends exactly three note-offs for the previous triad *)
(* on channels 1,2,3 (none if there was no chord), then exactly three      *)
(* note-ons for the new triad on channels 1,2,3, all at one velocity,      *)
(* every note-off before every note-on, and records the new chord.         *)
(***************************************************************************)
C5_Step ==
    LET zone == get_chord_from_position(Get(features', "feetCenterX", 50))
        ev == NoteEvents(sent', {1, 2, 3})
        k == IF current_chord = NoChord THEN 0 ELSE 3
    IN  (op' = "update" /\ port = "open" /\ zone # current_chord) =>
            /\ Len(ev) = k + 3
            /\ \A i \in 1..k :
                  ev[i] = [type |-> "note_off", channel |-> i,
                           note |-> CHORDS[current_chord][i], velocity |-> 0]
            /\ ev[k + 1].velocity \in 1..127
            /\ \A i \in 1..3 :
                  ev[k + i] = [type |-> "note_on", channel |-> i,
                               note |-> CHORDS[zone][i], velocity |-> ev[k + 1].velocity]
            /\ current_chord' = zone

C5_ChordChange == [][C5_Step]_vars

\* a call that went from another chord to chord VI with bent knees
C5_Witness ==
    /\ Called
    /\ current_chord = "VI"
    /\ Get(features, "kneeAngle", 100) = 50
    /\ Len(NoteEvents(sent, {1, 2, 3})) = 6

(***************************************************************************)
(* C6.  Chord selection is edge-triggered: an update whose feetCenterX     *)
(* maps to the zone of current_chord sends no note-on and no note-off on   *)
(* channels 1,2,3 and leaves current_chord and current_chord_notes alone,  *)
(* yet sends one pitch bend and one channel pressure on each of channels   *)
(* 1,2,3, whatever kneeAngle and hipTilt are.                              *)
(***************************************************************************)
C6_Step ==
    LET zone == get_chord_from_position(Get(features', "feetCenterX", 50))
    IN  (op' = "update" /\ port = "open" /\ zone = current_chord) =>
            /\ NoteEvents(sent', {1, 2, 3}) = <<>>
            /\ UNCHANGED <<current_chord, current_chord_notes>>
            /\ \A ch \in {1, 2, 3} :
                  /\ Len(OfType(sent', "pitchwheel", ch)) = 1
                  /\ Len(OfType(sent', "aftertouch", ch)) = 1

C6_EdgeTriggered == [][C6_Step]_vars

\* a call that stayed in zone I with kneeAngle 0.0 and hipTilt -1.0
C6_Witness ==
    /\ Called
    /\ current_chord = "I"
    /\ NoteEvents(sent, {1, 2, 3}) = <<>>
    /\ Get(features, "kneeAngle", 100) = 0
    /\ Get(features, "hipTilt", 0) = -100
    /\ Len(OfType(sent, "aftertouch", CH_CHORD_FIFTH)) = 1

(***************************************************************************)
(* C7.  The zone function is total and lower-inclusive: [0,0.25) -> I,     *)
(* [0.25,0.5) -> IV, [0.5,0.75) -> V, [0.75,1.0) -> VI, anything else      *)
(* (>= 1.0, negative) -> I; so 0.0 -> I, 0.25 -> IV, 0.5 -> V, 0.75 -> VI, *)
(* 1.0 -> I.  Stated of the chord an update selects.                       *)
(***************************************************************************)
C7_Zone(x) ==
    CASE 0 <= x /\ x < 25 -> "I"
      [] 25 <= x /\ x < 50 -> "IV"
      [] 50 <= x /\ x < 75 -> "V"
      [] 75 <= x /\ x < 100 -> "VI"
      [] OTHER -> "I"

C7_ZoneFunction == Called => current_chord = C7_Zone(Get(features, "feetCenterX", 50))

\* feetCenterX 1.0 selected chord I
C7_Witness ==
    /\ Called
    /\ Get(features, "feetCenterX", 50) = 100
    /\ current_chord = "I"

C9_Hand(old, jerk, hand_y, base, ch, new_note, new_time) ==
    LET ev == NoteEvents(sent', {ch})
        target == hand_y_to_note(hand_y, base)
    IN  (op' = "update" /\ port = "open" /\ old # NoNote /\ jerk > 40) =>
            /\ Len(ev) = 2
            /\ ev[1] = [type |-> "note_off", channel |-> ch, note |-> old, velocity |-> 0]
            /\ ev[2].type = "note_on" /\ ev[2].note = target
            /\ new_note = target
            /\ new_time = now

C9_Step ==
    /\ C9_Hand(melody_right_note, Get(features', "rightHandJerk", 0),
               Get(features', "rightHandY", 50), 48, 4,
               melody_right_note', melody_right_note_time')
    /\ C9_Hand(melody_left_note, Get(features', "leftHandJerk", 0),
               Get(features', "leftHandY", 50), 72, 5,
               melody_left_note', melody_left_note_time')

C9_Retrigger == [][C9_Step]_vars

\* a right-hand trigger that replaced note 48, started earlier, by note 60
C9_Witness ==
    /\ Called
    /\ Len(NoteEvents(sent, {4})) = 2
    /\ NoteEvents(sent, {4})[1].type = "note_off"
    /\ NoteEvents(sent, {4})[1].note = 48
    /\ melody_right_note = 60
    /\ melody_right_note_time = now

(***************************************************************************)
(* C10.  In an update where a hand's jerk does not exceed the threshold    *)
(* and a note is sounding for it, a note-off is sent and the active note   *)
(* cleared iff (current time - start time) > 0.3 s, whatever duration the  *)
(* arm velocity gave at the trigger; otherwise note and start time stay    *)
(* and no note event is sent for that hand.                                *)
(***************************************************************************)
C10_Hand(old, old_time, jerk, ch, new_note, new_time) ==
    LET ev == NoteEvents(sent', {ch})
    IN  (op' = "update" /\ port = "open" /\ old # NoNote /\ jerk <= 40) =>
            IF now - old_time > 30
            THEN /\ ev = <<[type |-> "note_off", channel |-> ch, note |-> old, velocity |-> 0]>>
                 /\ new_note = NoNote
            ELSE /\ ev = <<>>
                 /\ new_note = old
                 /\ new_time = old_time

C10_Step ==
    /\ C10_Hand(melody_right_note, melody_right_note_time,
                Get(features', "rightHandJerk", 0), 4,
                melody_right_note', melody_right_note_time')
    /\ C10_Hand(melody_left_note, melody_left_note_time,
                Get(features', "leftHandJerk", 0), 5,
                melody_left_note', melody_left_note_time')

OffSent(ch) == Len(OfType(sent, "note_off", ch)) > 0

EventuallyOff(ch) == []<>(sounding[ch] = NoNote \/ OffSent(ch))

\* the claim as stated: all five note channels
C1_EveryNoteOnPaired == \A ch \in NoteChannels : EventuallyOff(ch)

\* As amended: melody notes are always turned off in the end; a chord is
\* turned off by the call that changes the chord, and by no other.
C1_ChordOffStep ==
    (current_chord # NoChord /\ op' = "update") =>
        \A i \in 1..3 :
            OfType(sent', "note_off", i) =
                IF current_chord' # current_chord
                THEN <<[type |-> "note_off", channel |-> i,
                        note |-> CHORDS[current_chord][i], velocity |-> 0]>>
                ELSE <<>>

C1_MelodyPairedChordHeld ==
    /\ EventuallyOff(CH_MELODY_RIGHT)
    /\ EventuallyOff(CH_MELODY_LEFT)
    /\ []well_paired
    /\ [][C1_ChordOffStep]_vars

\* a left-hand note that was left to time out has been turned off
C1_Witness ==
    /\ Called
    /\ LeftJerk <= JERK_THRESHOLD
    /\ OfType(sent, "note_off", CH_MELODY_LEFT) # <<>>
    /\ sounding[CH_MELODY_LEFT] = NoNote

(***************************************************************************)
(* C11.  In every update call that leaves a melody note sounding for a     *)
(* hand, the call in which the note is first triggered included, exactly   *)
(* one pitch-bend message is sent on that hand's channel, and its value is *)
(* clamp(round(8192 + elbowHipAngle * 2048), 0, 16383).                    *)
(***************************************************************************)
C11_Bend(elbow_angle) == Max(0, Min(16383, Round(819200 + elbow_angle * 2048, 100)))

C11_Hand(note, elbow_angle, ch) ==
    note # NoNote =>
        OfType(sent, "pitchwheel", ch) = <<pitch_bend(C11_Bend(elbow_angle), ch)>>

C11_BendWhileSounding ==
    Called =>
        /\ C11_Hand(melody_right_note, Get(features, "rightElbowHipAngle", 0), CH_MELODY_RIGHT)
        /\ C11_Hand(melody_left_note, Get(features, "leftElbowHipAngle", 0), CH_MELODY_LEFT)

(***************************************************************************)
(* C12.  close on an open port sends exactly five control-change 123       *)
(* messages, one on each of the channels 1..5 and none on the master       *)
(* channel, whichever chord or melody notes are active.                    *)
(***************************************************************************)
C12_CloseAllNotesOff ==
    (op = "close" /\ port = "open") =>
        /\ Len(sent) = 5
        /\ \A i \in 1..Len(sent) :
               sent[i].type = "control_change" /\ sent[i].control = 123
        /\ \A ch \in 1..5 : Len(OfType(sent, "control_change", ch)) = 1
        /\ OfType(sent, "control_change", CH_MASTER) = <<>>

\* a close while a chord and a melody note are active
C12_Witness ==
    /\ op = "close" /\ port = "open"
    /\ current_chord # NoChord
    /\ melody_right_note # NoNote

(***************************************************************************)
(* C13.  With no port, every update call and every close call sends no     *)
(* message and leaves the chord, its notes, both melody notes and both     *)
(* note start times as they were.                                          *)
(***************************************************************************)
C13_Step ==
    (port = "none" /\ op' \in {"update", "close"}) =>
        /\ sent' = <<>>
        /\ UNCHANGED mapper

C13_NoPortNoOp == [][C13_Step]_vars

\* an update that would trigger a note, made without a port
C13_Witness ==
    /\ port = "none" /\ op = "update"
    /\ RightJerk > JERK_THRESHOLD
    /\ get_chord_from_position(Get(features, "feetCenterX", 50)) # current_chord

C20_ScaleIndex(hand_y) == Max(0, Min(7, (hand_y * 799) \div 10000))

C20_Returned ==
    scale_call.note # NoNote =>
        LET scaleIndex == C20_ScaleIndex(scale_call.hand_y)
            base == scale_call.base_note
        IN  /\ scale_call.note = IF scaleIndex = 7 THEN base + 12
                                  ELSE base + <<0, 2, 4, 5, 7, 9, 11>>[scaleIndex + 1]
            /\ scale_call.note - base \in {0, 2, 4, 5, 7, 9, 11, 12}
            /\ (scale_call.hand_y = 0 /\ base = 48) => scale_call.note = 48
            /\ (scale_call.hand_y = 99 /\ base = 48) => scale_call.note > 55

C20_Step ==
    (scale_call.note # NoNote /\ scale_call'.hand_y >= scale_call.hand_y
        /\ scale_call'.base_note = scale_call.base_note)
    => scale_call'.note >= scale_call.note

C20_Quantized == []C20_Returned /\ [][C20_Step]_vars

\* the hand at 0.99 over base 48, reached by raising it from below
C20_Witness ==
    /\ scale_call.hand_y = 99
    /\ scale_call.base_note = 48
    /\ scale_call.note = 60

(***************************************************************************)
(* Vocabulary of the FeatureExtractor properties.                          *)
(***************************************************************************)
Abs(n) == IF n < 0 THEN -n ELSE n

\* the latest step was a calculate call on a frame of at least 33 landmarks
ValidCall == op = "calculate" /\ ~invalid(call.landmarks)

\* the same, of the state a step leads to
ValidCallNext == op' = "calculate" /\ calls' = calls + 1 /\ ~invalid(call'.landmarks)

SeventeenKeys ==
    {"energy", "symmetry", "smoothness", "armAngle", "verticalExtension",
     "feetCenterX", "hipTilt", "kneeAngle", "rightHandY", "leftHandY",
     "rightHandJerk", "leftHandJerk", "rightArmVelocity", "leftArmVelocity",
     "rightElbowHipAngle", "leftElbowHipAngle", "headTilt"}

SignedKeys == {"symmetry", "hipTilt", "headTilt"}

InRange(key, value) ==
    IF key \in SignedKeys THEN -1000000 <= value /\ value <= 1000000
    ELSE 0 <= value /\ value <= 1000000

(***************************************************************************)
(* C15.  calculate on a frame that is None, empty or shorter than 33       *)
(* landmarks returns the fixed default mapping of 17 entries and leaves    *)
(* the smoothing state alone: the state is always what the latest call on  *)
(* a valid frame left, so the valid calls of a sequence return what they   *)
(* return with the invalid calls removed.                                  *)
(***************************************************************************)
C15_Defaults ==
    [energy |-> 0, symmetry |-> 0, smoothness |-> 500000, armAngle |-> 0,
     verticalExtension |-> 500000, feetCenterX |-> 500000, hipTilt |-> 0,
     kneeAngle |-> 1000000, rightHandY |-> 500000, leftHandY |-> 500000,
     rightHandJerk |-> 0, leftHandJerk |-> 0, rightArmVelocity |-> 0,
     leftArmVelocity |-> 0, rightElbowHipAngle |-> 0, leftElbowHipAngle |-> 0,
     headTilt |-> 0]

C15_Step ==
    (op' = "calculate" /\ calls' = calls + 1 /\ invalid(call'.landmarks)) =>
        /\ returned' = C15_Defaults
        /\ prev_features' = prev_features

C15_InvalidFrame == [](prev_features = last_valid) /\ [][C15_Step]_vars

\* an invalid call made after a valid one, answered with the defaults
C15_Witness ==
    /\ op = "calculate" /\ invalid(call.landmarks)
    /\ call.landmarks # None
    /\ prev_features # None
    /\ returned = C15_Defaults

(***************************************************************************)
(* C16.  For every valid frame of 33 landmarks, with or without a previous *)
(* frame and wherever it comes in a sequence of calls, calculate returns a *)
(* mapping whose keys are exactly the 17 descriptor names.                 *)
(***************************************************************************)
C16_AllKeys == ValidCall => DOMAIN returned = SeventeenKeys

(***************************************************************************)
(* C17.  For every sequence of calls on frames of 33 landmarks, whatever   *)
(* their coordinates, each of the 17 entries of every returned mapping is  *)
(* in its range: [0, 1] for the 14 unsigned keys, [-1, 1] for symmetry,    *)
(* hipTilt and headTilt.                                                   *)
(***************************************************************************)
C17_AllInRange ==
    ValidCall =>
        \A key \in SeventeenKeys : key \in DOMAIN returned /\ InRange(key, returned[key])

\* what holds of the entries that are returned
C17_ReturnedInRange ==
    op = "calculate" => \A key \in DOMAIN returned : InRange(key, returned[key])

(***************************************************************************)
(* C18.  On a fresh extractor the first valid call returns the raw values  *)
(* and keeps them as the seed; every later valid call returns, for each    *)
(* entry, 0.3 * raw + 0.7 * previous, where previous is what the preceding *)
(* valid call returned (to the nearest millionth).                         *)
(***************************************************************************)
C18_Step ==
    ValidCallNext =>
        LET raw == raw_features(call'.landmarks[1], call'.prev_landmarks)
        IN  IF last_valid = None
            THEN returned' = raw /\ prev_features' = Some(raw)
            ELSE /\ DOMAIN returned' = DOMAIN raw
                 /\ \A key \in DOMAIN raw :
                        Abs(10 * returned'[key] - (3 * raw[key] + 7 * last_valid[1][key])) <= 5

C18_Smoothing == [][C18_Step]_vars

\* a third valid call, whose previous value is itself a smoothed one
C18_Witness ==
    /\ ValidCall
    /\ calls = 3 /\ presented = 1
    /\ returned # last_raw[1]
    /\ returned["armAngle"] = 350500

(***************************************************************************)
(* C19.  When the same raw value R is presented on consecutive valid       *)
(* calls, each returned value lies between the previously returned value   *)
(* and R, its distance to R does not grow, and after 20 presentations it   *)
(* is within 0.05 of R.                                                    *)
(***************************************************************************)
C19_Step ==
    (ValidCallNext /\ last_raw # None /\ last_raw' = last_raw) =>
        \A key \in DOMAIN returned' :
            LET R == last_raw[1][key]
                before == last_valid[1][key]
                after == returned'[key]
            IN  /\ Min(before, R) <= after /\ after <= Max(before, R)
                /\ Abs(after - R) <= Abs(before - R)

C19_Close ==
    presented >= 20 =>
        \A key \in DOMAIN last_raw[1] : Abs(last_valid[1][key] - last_raw[1][key]) <= 50000

C19_NoDrift == []C19_Close /\ [][C19_Step]_vars

\* the twentieth presentation of a frame after a different first frame
C19_Witness ==
    /\ ValidCall
    /\ presented = 20
    /\ calls = 21
    /\ returned # last_raw[1]

(***************************************************************************)
(* C22.  The channel allocation is master 0, chord root 1, third 2,        *)
(* fifth 3, right hand 4, left hand 5, no two roles sharing a channel, and *)
(* every message is on the channel of its role: chord notes, chord bends   *)
(* and pressure on 1..3, right-hand messages on 4, left-hand messages on   *)
(* 5, controller 74 on 0 and nothing else there.  In an update call the    *)
(* chord handler's messages come first, then the right hand's, the left    *)
(* hand's and the filter's.                                                *)
(***************************************************************************)
C22_ScaleOffsets == {0, 2, 4, 5, 7, 9, 11, 12}

C22_Role(m) ==
    CASE m.type = "control_change" ->
            IF m.channel = 0 THEN m.control = 74
            ELSE m.control = 123 /\ m.channel \in 1..5
      [] m.type = "aftertouch" -> m.channel \in 1..3
      [] m.type = "pitchwheel" -> m.channel \in 1..5
      [] m.type \in {"note_on", "note_off"} ->
            \/ m.channel \in 1..3 /\ \E c \in {"I", "IV", "V", "VI"} : CHORDS[c][m.channel] = m.note
            \/ m.channel = 4 /\ m.note - 48 \in C22_ScaleOffsets
            \/ m.channel = 5 /\ m.note - 72 \in C22_ScaleOffsets
      [] OTHER -> FALSE

\* the place of a channel's handler in an update call
C22_Turn(ch) == IF ch = 0 THEN 4 ELSE IF ch <= 3 THEN 1 ELSE ch - 2

C22_Channels ==
    /\ <<CH_MASTER, CH_CHORD_ROOT, CH_CHORD_THIRD, CH_CHORD_FIFTH, CH_MELODY_RIGHT, CH_MELODY_LEFT>>
           = <<0, 1, 2, 3, 4, 5>>
    /\ \A i \in 1..Len(sent) : C22_Role(sent[i])
    /\ op = "update" =>
           \A i \in 1..(Len(sent) - 1) : C22_Turn(sent[i].channel) <= C22_Turn(sent[i + 1].channel)

\* one update call with messages on all six channels
C22_Witness ==
    /\ Called
    /\ \A ch \in 0..5 : \E i \in 1..Len(sent) : sent[i].channel = ch

(***************************************************************************)
(* C23.  As stated: the velocity of the three note-ons of a chord change   *)
(* is clamp(round(40 + kneeAngle * 87), 1, 127) for the kneeAngle of that  *)
(* call.                                                                   *)
(***************************************************************************)
C23_ChordOns == SelectSeq(sent, LAMBDA m : m.type = "note_on" /\ m.channel \in 1..3)

C23_VelocityRounded ==
    Called =>
        \A i \in 1..Len(C23_ChordOns) :
            C23_ChordOns[i].velocity
                = Max(1, Min(127, Round(4000 + Get(features, "kneeAngle", 100) * 87, 100)))

\* C23 as the program has it: 40 + kneeAngle * 87 truncated toward zero,
\* then clamped; above 100 for kneeAngle 1.0 and below 60 for kneeAngle 0.0.
C23_VelocityTruncated ==
    Called =>
        LET knee_angle == Get(features, "kneeAngle", 100)
        IN  \A i \in 1..Len(C23_ChordOns) :
                /\ C23_ChordOns[i].velocity = Max(1, Min(127, Trunc(4000 + knee_angle * 87, 100)))
                /\ knee_angle = 100 => C23_ChordOns[i].velocity > 100
                /\ knee_angle = 0 => C23_ChordOns[i].velocity < 60

\* a chord change with kneeAngle 0.5, where 40 + 43.5 has a fraction
C23_Witness ==
    /\ Called
    /\ Get(features, "kneeAngle", 100) = 50
    /\ Len(C23_ChordOns) = 3

(***************************************************************************)
(* C24.  For every hipTilt and kneeAngle value passed to update while a    *)
(* chord is active, the pitch bend sent on each of the channels 1, 2, 3 is *)
(* clamp(round(8192 + hipTilt * 4096), 0, 16383) and the channel pressure  *)
(* sent on each of them is clamp(round(kneeAngle * 127), 0, 127); hipTilt  *)
(* 0 gives the wire pitch 0 and a positive hipTilt a wire pitch above 0.   *)
(***************************************************************************)
C24_Of(msgs, type, ch) == SelectSeq(msgs, LAMBDA m : m.type = type /\ m.channel = ch)

C24_Sent(type, ch) == C24_Of(sent, type, ch)

C24_Expression ==
    expression_call.msgs # <<>> =>
        LET hip_tilt == expression_call.hip_tilt
            knee_angle == expression_call.knee_angle
            bend == Max(0, Min(16383, Round(819200 + hip_tilt * 4096, 100)))
            pressure == Max(0, Min(127, Round(knee_angle * 127, 100)))
            msgs == expression_call.msgs
        IN  \A ch \in 1..3 :
                /\ C24_Of(msgs, "pitchwheel", ch)
                      = <<[type |-> "pitchwheel", channel |-> ch, pitch |-> bend - 8192]>>
                /\ C24_Of(msgs, "aftertouch", ch)
                      = <<[type |-> "aftertouch", channel |-> ch, value |-> pressure]>>
                /\ hip_tilt = 0 => C24_Of(msgs, "pitchwheel", ch)[1].pitch = 0
                /\ hip_tilt > 0 => C24_Of(msgs, "pitchwheel", ch)[1].pitch > 0

\* a call whose pressure is no MIDI data byte: kneeAngle above 1.0
C24_PressureOutOfRange ==
    /\ expression_call.knee_angle > 100
    /\ C24_Of(expression_call.msgs, "aftertouch", 1) # <<>>
    /\ C24_Of(expression_call.msgs, "aftertouch", 1)[1].value > 127

\* what update sends for the values of the sender's input set, all within
\* their ranges: both values truncated toward zero, the bend clamped to
\* 0..16383, the pressure as computed
C24_ExpressionTruncated ==
    (Called /\ current_chord # NoChord) =>
        LET hip_tilt == Get(features, "hipTilt", 0)
            knee_angle == Get(features, "kneeAngle", 100)
            bend == Max(0, Min(16383, Trunc(819200 + hip_tilt * 4096, 100)))
            pressure == Trunc(knee_angle * 127, 100)
        IN  \A ch \in 1..3 :
                /\ C24_Sent("pitchwheel", ch) = <<[type |-> "pitchwheel", channel |-> ch, pitch |-> bend - 8192]>>
                /\ C24_Sent("aftertouch", ch) = <<[type |-> "aftertouch", channel |-> ch, value |-> pressure]>>
                /\ hip_tilt = 0 => C24_Sent("pitchwheel", ch)[1].pitch = 0
                /\ hip_tilt > 0 => C24_Sent("pitchwheel", ch)[1].pitch > 0

(***************************************************************************)
(* C25.  As stated: the velocity of a triggered melody note-on is          *)
(* clamp(round(60 + armVelocity * 67), 1, 127) for that hand's armVelocity *)
(* in the triggering call.                                                 *)
(***************************************************************************)
C25_Hand(ch, arm_velocity) ==
    \A i \in 1..Len(C24_Sent("note_on", ch)) :
        C24_Sent("note_on", ch)[i].velocity = Max(1, Min(127, Round(6000 + arm_velocity * 67, 100)))

C25_VelocityRounded ==
    Called =>
        /\ C25_Hand(CH_MELODY_RIGHT, Get(features, "rightArmVelocity", 0))
        /\ C25_Hand(CH_MELODY_LEFT, Get(features, "leftArmVelocity", 0))

\* C25 as the program has it: 60 + armVelocity * 67 truncated toward zero,
\* then clamped; above 110 for armVelocity 1.0, below 80 for armVelocity 0.0.
C25_HandTruncated(ch, arm_velocity) ==
    \A i \in 1..Len(C24_Sent("note_on", ch)) :
        LET velocity == C24_Sent("note_on", ch)[i].velocity
        IN  /\ velocity = Max(1, Min(127, Trunc(6000 + arm_velocity * 67, 100)))
            /\ arm_velocity = 100 => velocity > 110
            /\ arm_velocity = 0 => velocity < 80

C25_VelocityTruncated ==
    Called =>
        /\ C25_HandTruncated(CH_MELODY_RIGHT, Get(features, "rightArmVelocity", 0))
        /\ C25_HandTruncated(CH_MELODY_LEFT, Get(features, "leftArmVelocity", 0))

\* a trigger with armVelocity 0.5, where 60 + 33.5 has a fraction
C25_Witness ==
    /\ Called
    /\ Get(features, "rightArmVelocity", 0) = 50
    /\ Len(C24_Sent("note_on", CH_MELODY_RIGHT)) = 1
    /\ C24_Sent("note_on", CH_MELODY_RIGHT)[1].velocity = 93

(***************************************************************************)
(* C26.  For a descriptor mapping whose entries are in their declared      *)
(* ranges, every message of an update call, and every message of a close   *)
(* call, is well formed: note-on velocity in 1..127, note-off velocity 0,  *)
(* note in 0..127, wire pitch bend in -8192..8191, pressure in 0..127,     *)
(* control value in 0..127, channel in 0..5.                               *)
(***************************************************************************)
C26_InRange(f) ==
    \A key \in DOMAIN f :
        IF key \in {"hipTilt", "headTilt"} THEN -100 <= f[key] /\ f[key] <= 100
        ELSE 0 <= f[key] /\ f[key] <= 100

C26_Message(m) ==
    /\ m.channel \in 0..5
    /\ CASE m.type = "note_on" -> m.note \in 0..127 /\ m.velocity \in 1..127
         [] m.type = "note_off" -> m.note \in 0..127 /\ m.velocity = 0
         [] m.type = "pitchwheel" -> m.pitch \in -8192..8191
         [] m.type = "aftertouch" -> m.value \in 0..127
         [] m.type = "control_change" -> m.control \in 0..127 /\ m.value \in 0..127
         [] OTHER -> FALSE

C26_WellFormed == C26_InRange(features) => \A i \in 1..Len(sent) : C26_Message(sent[i])

\* the extremes of the ranges in one call: hipTilt 1.0, headTilt -1.0
C26_Witness ==
    /\ Called
    /\ C26_InRange(features)
    /\ Get(features, "hipTilt", 0) = 100
    /\ Get(features, "headTilt", 0) = -100
    /\ Len(C24_Sent("aftertouch", 1)) = 1

(***************************************************************************)
(* C21.  End to end, calculate followed by update on the returned mapping, *)
(* on a fresh extractor and sender: a pose with both ankles at x = 0.10    *)
(* selects chord I and emits note-ons for exactly 48, 52, 55; ankles at    *)
(* x = 0.90 select chord VI and emit 57, 60, 64; the neutral pose selects  *)
(* chord V and emits 55, 59, 62; in each case on channels 1, 2, 3.         *)
(***************************************************************************)
C21_NoteOns == SelectSeq(sent, LAMBDA m : m.type = "note_on")

C21_Selects(chord) ==
    /\ current_chord = chord
    /\ Len(C21_NoteOns) = 3
    /\ \A i \in 1..3 : C21_NoteOns[i].note = CHORDS[chord][i] /\ C21_NoteOns[i].channel = i

C21_FeetSelectChord ==
    (op = "update" /\ calls = 1 /\ ~invalid(call.landmarks)) =>
        LET feet == (At(call.landmarks[1], 27).x + At(call.landmarks[1], 28).x) \div 2
        IN  /\ feet = 10 => C21_Selects("I") /\ CHORDS["I"] = <<48, 52, 55>>
            /\ feet = 90 => C21_Selects("VI") /\ CHORDS["VI"] = <<57, 60, 64>>
            /\ feet = 50 => C21_Selects("V") /\ CHORDS["V"] = <<55, 59, 62>>

\* what the pipeline does: the returned mapping of a valid frame has no
\* feetCenterX, update falls back to 0.5, and the first update selects chord
\* V wherever the feet are
C21_AlwaysDominant ==
    (op = "update" /\ calls = 1) => C21_Selects("V")

C21_FeetLeftWitness ==
    /\ op = "update"
    /\ calls = 1
    /\ call.landmarks = Some(FeetAt(10))
    /\ C21_Selects("V")

(***************************************************************************)
(* C30.  On a fresh extractor, calculate(frame, previous_frame) with the   *)
(* previous frame identical to the frame returns energy 0, rightHandJerk   *)
(* 0, leftHandJerk 0, rightArmVelocity 0, leftArmVelocity 0 and smoothness *)
(* 1; with no previous frame it returns energy 0.0 and smoothness 0.5.     *)
(***************************************************************************)
C30_Fresh == op = "calculate" /\ calls = 1 /\ ~invalid(call.landmarks)

C30_IdenticalFrames ==
    C30_Fresh =>
        /\ call.prev_landmarks = call.landmarks =>
              /\ \A key \in {"energy", "rightHandJerk", "leftHandJerk",
                              "rightArmVelocity", "leftArmVelocity"} :
                     key \in DOMAIN returned /\ returned[key] = 0
              /\ returned["smoothness"] = One
        /\ call.prev_landmarks = None =>
              returned["energy"] = 0 /\ returned["smoothness"] = One \div 2

\* the part of C30 about the two descriptors calculate does return
C30_EnergySmoothness ==
    C30_Fresh =>
        /\ call.prev_landmarks = call.landmarks =>
              returned["energy"] = 0 /\ returned["smoothness"] = One
        /\ call.prev_landmarks = None =>
              returned["energy"] = 0 /\ returned["smoothness"] = One \div 2

C30_IdenticalWitness ==
    /\ C30_Fresh
    /\ call.prev_landmarks = call.landmarks
    /\ "rightHandJerk" \notin DOMAIN returned

(***************************************************************************)
(* C27.  send_features emits exactly one message for each entry of the     *)
(* mapping, to the address /motion/<key> with the value coerced to float,  *)
(* each in one send_message call and with no bundle sent; an empty mapping *)
(* emits no message.                                                       *)
(***************************************************************************)
\* the float a Python number is equal to
C27_AsFloat(value) ==
    [kind |-> "float",
     value |-> IF value.kind = "int" THEN value.value * 1000000 ELSE value.value]

C27_OnePerEntry ==
    client.method = "send_features" =>
        /\ Len(client.send_message) = Len(client.features)
        /\ client.send = <<>>
        /\ \A i \in 1..Len(client.features) :
              client.send_message[i]
                  = <<"/motion/" \o client.features[i][1], C27_AsFloat(client.features[i][2])>>
        /\ client.features = <<>> => client.send_message = <<>>

\* a mapping of two entries, one of them the int 1
C27_Witness ==
    /\ client.method = "send_features"
    /\ client.features = <<<<"energy", PyInt(1)>>, <<"symmetry", PyFloat(-200000)>>>>
    /\ client.send_message = <<<<"/motion/energy", PyFloat(1000000)>>,
                               <<"/motion/symmetry", PyFloat(-200000)>>>>

(***************************************************************************)
(* C28.  send_bundle performs exactly one transport send, and the bundle   *)
(* it sends holds the same set of (address, float value) pairs that        *)
(* send_features emits as single messages for the same mapping.            *)
(***************************************************************************)
C28_Pairs(bundle) ==
    {<<bundle.content[i].address, bundle.content[i].args>> : i \in 1..Len(bundle.content)}

C28_Singles(mapping) ==
    {<<send_features(mapping)[i][1], <<send_features(mapping)[i][2]>>>> :
        i \in 1..Len(mapping)}

C28_OneBundle ==
    client.method = "send_bundle" =>
        /\ Len(client.send) = 1
        /\ client.send_message = <<>>
        /\ Len(client.send[1].content) = Len(client.features)
        /\ C28_Pairs(client.send[1]) = C28_Singles(client.features)

\* a bundle of two messages, one of them for the int 1
C28_Witness ==
    /\ client.method = "send_bundle"
    /\ client.features = <<<<"energy", PyInt(1)>>, <<"symmetry", PyFloat(-200000)>>>>
    /\ Len(client.send) = 1
    /\ Len(client.send[1].content) = 2

(***************************************************************************)
(* C29.  No feature computation raises on degenerate geometry: a knee      *)
(* whose hip or ankle coincides with it yields 1.0 for that leg, and a     *)
(* hand height whose max_y equals min_y (hip.y + 0.1 = nose.y - 0.2)       *)
(* yields a value within [0, 1] instead of a division by zero.             *)
(***************************************************************************)
C29_Frame == geometry_call.landmarks[1]

\* the knee idx lies on the hip or on the ankle of its leg
C29_ZeroLength(hip, knee, ankle) ==
    At(C29_Frame, knee) = At(C29_Frame, hip) \/ At(C29_Frame, knee) = At(C29_Frame, ankle)

C29_FlatRange(side) ==
    At(C29_Frame, IF side = "right" THEN 24 ELSE 23).y + 10 = At(C29_Frame, 0).y - 20

C29_KneeDegenerate ==
    geometry_call.calculator = "knee_angle" =>
        /\ geometry_call.outcome.raised = ""
        /\ geometry_call.outcome.value \in 0..One
        /\ C29_ZeroLength(23, 25, 27) => geometry_call.outcome.legs[1] = One
        /\ C29_ZeroLength(24, 26, 28) => geometry_call.outcome.legs[2] = One

C29_HandYDegenerate ==
    geometry_call.calculator = "hand_y" =>
        /\ geometry_call.outcome.raised = ""
        /\ geometry_call.outcome.value \in 0..One

C29_NeverRaises == C29_KneeDegenerate /\ C29_HandYDegenerate

\* the left knee on the hip: that leg yields 1.0
C29_KneeWitness ==
    /\ geometry_call.calculator = "knee_angle"
    /\ C29_ZeroLength(23, 25, 27)
    /\ geometry_call.outcome.legs[1] = One

\* the hand height of a frame with hip.y + 0.1 = nose.y - 0.2
C29_HandYWitness ==
    /\ geometry_call.calculator = "hand_y"
    /\ C29_FlatRange(geometry_call.side)
    /\ geometry_call.outcome.raised = "ZeroDivisionError"

(***************************************************************************)
(* C31.  calculate never mutates its inputs: after any call, the frame and *)
(* the previous frame passed in hold the same landmarks with the same      *)
(* coordinates as before the call, and a mapping returned by an earlier    *)
(* call is not altered by a later call.                                    *)
(***************************************************************************)
\* the objects the caller holds: its frames and the mappings returned to it
C31_Held == memory.frames \cup {memory.returned[i] : i \in 1..Len(memory.returned)}

C31_Step ==
    /\ Len(memory'.objects) >= Len(memory.objects)
    /\ \A ref \in C31_Held : memory'.objects[ref] = memory.objects[ref]
    /\ memory'.returned[Len(memory'.returned)] \notin C31_Held

C31_InputsUntouched == [][C31_Step]_vars

\* two calls on valid frames have returned two different mappings, and the
\* caller still holds the first as it was returned
C31_Witness ==
    /\ Len(memory.returned) = 2
    /\ memory.objects[memory.returned[1]]
          = calculate(None, Some(Neutral), None).returned
    /\ memory.objects[memory.returned[2]]
          = calculate(Some(memory.objects[memory.returned[1]]), Some(Reach), Some(Neutral)).returned
    /\ memory.objects[memory.returned[2]] # memory.objects[memory.returned[1]]
    /\ memory.objects[1] = Neutral
    /\ memory.objects[2] = Reach

(***************************************************************************)
(* C32.  Before the first update call on an open port current_chord is     *)
(* None and current_chord_notes is empty.  Once that call has returned a   *)
(* chord is always active: current_chord is never None again and           *)
(* current_chord_notes has exactly three entries, CHORDS[current_chord],   *)
(* after any further update and close calls.                               *)
(***************************************************************************)
C32_NoChordYet == current_chord = NoChord /\ current_chord_notes = <<>>

C32_Active ==
    /\ current_chord # NoChord
    /\ Len(current_chord_notes) = 3
    /\ current_chord_notes = CHORDS[current_chord]

C32_Step ==
    /\ (op' = "update" /\ port = "open") => C32_Active'
    /\ C32_Active => C32_Active'
    /\ (C32_NoChordYet /\ ~(op' = "update" /\ port = "open")) => C32_NoChordYet'

C32_ChordStaysActive == C32_NoChordYet /\ [](C32_NoChordYet \/ C32_Active) /\ [][C32_Step]_vars

\* a close call made with chord IV active has left it active
C32_Witness ==
    /\ op = "close"
    /\ port = "open"
    /\ current_chord = "IV"
    /\ current_chord_notes = <<53, 57, 60>>

(***************************************************************************)
(* C33.  Within one update call the messages are ordered: the chord        *)
(* messages come first (note-offs, note-ons, then the three pitch bends,   *)
(* then the three pressures, on channels 1-3), then all right-hand         *)
(* messages on channel 4, then all left-hand messages on channel 5, and    *)
(* the CC74 on channel 0 is the last message of the call.                  *)
(***************************************************************************)
C33_Rank(m) ==
    CASE m.channel \in 1..3 /\ m.type = "note_off" -> 1
      [] m.channel \in 1..3 /\ m.type = "note_on" -> 2
      [] m.channel \in 1..3 /\ m.type = "pitchwheel" -> 3
      [] m.channel \in 1..3 /\ m.type = "aftertouch" -> 4
      [] m.channel = 4 -> 5
      [] m.channel = 5 -> 6
      [] m.channel = 0 /\ m.type = "control_change" -> 7
      [] OTHER -> 0

C33_Ranked(rank) == SelectSeq(sent, LAMBDA m : C33_Rank(m) = rank)

C33_Ordered ==
    Called =>
        /\ \A i \in 1..Len(sent) : C33_Rank(sent[i]) # 0
        /\ \A i \in 1..(Len(sent) - 1) : C33_Rank(sent[i]) <= C33_Rank(sent[i + 1])
        /\ Len(C33_Ranked(3)) = 3
        /\ Len(C33_Ranked(4)) = 3
        /\ \A i \in 1..3 : C33_Ranked(3)[i].channel = i /\ C33_Ranked(4)[i].channel = i
        /\ Len(C33_Ranked(7)) = 1
        /\ sent[Len(sent)].type = "control_change"
        /\ sent[Len(sent)].control = 74
        /\ sent[Len(sent)].channel = 0

\* a call with a chord change and messages of both hands
C33_Witness ==
    /\ Called
    /\ Len(C33_Ranked(1)) = 3
    /\ Len(C33_Ranked(2)) = 3
    /\ Len(C33_Ranked(5)) >= 2
    /\ Len(C33_Ranked(6)) >= 2

(***************************************************************************)
(* C34.  The three sub-machines do not interfere: processing one hand      *)
(* changes only that hand's note and start time and sends only on that     *)
(* hand's channel, chord processing never changes a melody note or start   *)
(* time, and melody and global-expression processing never change          *)
(* current_chord or current_chord_notes.                                   *)
(***************************************************************************)
\* one hand in one update step: its note changes only by its own trigger or
\* the timeout of its own note, its start time only by its own trigger, and
\* with no note of its own and no trigger nothing is sent on its channel
C34_Hand(note, time, jerk, ch, new_note, new_time) ==
    /\ new_time # time => (jerk > 40 /\ new_time = now)
    /\ new_note # note => (jerk > 40 \/ (note # NoNote /\ now - time > 30))
    /\ (note = NoNote /\ jerk <= 40) =>
          /\ SelectSeq(sent', LAMBDA m : m.channel = ch) = <<>>
          /\ new_note = NoNote
    /\ (note # NoNote /\ jerk <= 40 /\ now - time <= 30) =>
          /\ new_note = note
          /\ NoteEvents(sent', {ch}) = <<>>

C34_Step ==
    (op' = "update" /\ port = "open") =>
        LET zone == C7_Zone(Get(features', "feetCenterX", 50))
        IN  /\ C34_Hand(melody_right_note, melody_right_note_time,
                        Get(features', "rightHandJerk", 0), 4,
                        melody_right_note', melody_right_note_time')
            /\ C34_Hand(melody_left_note, melody_left_note_time,
                        Get(features', "leftHandJerk", 0), 5,
                        melody_left_note', melody_left_note_time')
            /\ current_chord' = zone
            /\ zone = current_chord =>
                  /\ current_chord_notes' = current_chord_notes
                  /\ NoteEvents(sent', {1, 2, 3}) = <<>>

C34_NoInterference == [][C34_Step]_vars

\* the left hand has triggered in a call in which the chord changed, and the
\* note the right hand started in an earlier call is as it was
C34_Witness ==
    /\ Called
    /\ LeftJerk > 40
    /\ RightJerk <= 40
    /\ melody_left_note_time = now
    /\ melody_right_note # NoNote
    /\ melody_right_note_time < now
    /\ NoteEvents(sent, {4}) = <<>>
    /\ Len(NoteEvents(sent, {1, 2, 3})) = 6

(***************************************************************************)
(* C35.  While a hand's jerk stays strictly above the threshold on         *)
(* consecutive update calls, every one of those calls retriggers: it sends *)
(* the note-off for the sounding note, then the note-on for the target     *)
(* note, also when the target is the sounding note, and resets the start   *)
(* time, so the 0.3 s timeout never fires during such a run.               *)
(*                                                                         *)
(* A call with the jerk above the threshold leaves a note sounding that    *)
(* started at the time of the call (C35_Triggered); the next such call     *)
(* therefore finds a sounding note, however long ago it started, and       *)
(* replaces it (C35_Step).                                                 *)
(***************************************************************************)
C35_HandTriggered(jerk, note, time) ==
    jerk > 40 => (note # NoNote /\ time = now)

C35_Triggered ==
    Called =>
        /\ C35_HandTriggered(RightJerk, melody_right_note, melody_right_note_time)
        /\ C35_HandTriggered(LeftJerk, melody_left_note, melody_left_note_time)

C35_Hand(note, jerk, ch, new_note, new_time) ==
    (note # NoNote /\ jerk > 40) =>
        LET ev == NoteEvents(sent', {ch})
        IN  /\ Len(ev) = 2
            /\ ev[1].type = "note_off" /\ ev[1].note = note
            /\ ev[2].type = "note_on" /\ ev[2].note = new_note
            /\ new_note # NoNote
            /\ new_time = now

C35_Step ==
    (op' = "update" /\ port = "open") =>
        /\ C35_Hand(melody_right_note, Get(features', "rightHandJerk", 0), 4,
                    melody_right_note', melody_right_note_time')
        /\ C35_Hand(melody_left_note, Get(features', "leftHandJerk", 0), 5,
                    melody_left_note', melody_left_note_time')

C35_RunRetriggers == []C35_Triggered /\ [][C35_Step]_vars

\* the right hand has retriggered note 60 over note 60
C35_Witness ==
    /\ Called
    /\ RightJerk > 40
    /\ NoteEvents(sent, {4})
          = <<[type |-> "note_off", channel |-> 4, note |-> 60, velocity |-> 0],
              [type |-> "note_on", channel |-> 4, note |-> 60, velocity |-> 127]>>
    /\ melody_right_note_time = now

(***************************************************************************)
(* C37.  close sends no note-off and changes no mapper state: the chord,   *)
(* its notes, both melody notes, both start times and the port reference   *)
(* are after close what they were before, so an update call made after     *)
(* close runs the whole state machine against the retained state.          *)
(***************************************************************************)
C37_Step ==
    /\ op' = "close" =>
          /\ UNCHANGED <<port, mapper>>
          /\ \A i \in 1..Len(sent') : sent'[i].type # "note_off"
    /\ (op = "close" /\ op' = "update" /\ port = "open" /\ current_chord # NoChord) =>
          /\ sent'[Len(sent')].type = "control_change"
          /\ Len(OfType(sent', "pitchwheel", 1)) = 1
          /\ C7_Zone(Get(features', "feetCenterX", 50)) = current_chord
                => NoteEvents(sent', {1, 2, 3}) = <<>>
          /\ (melody_right_note # NoNote /\ Get(features', "rightHandJerk", 0) > 40)
                => NoteEvents(sent', {4})[1].note = melody_right_note

C37_CloseKeepsState == [][C37_Step]_vars

\* a close made with a chord active and a right-hand note sounding has sent
\* its messages and kept both
C37_Witness ==
    /\ op = "close"
    /\ port = "open"
    /\ sent # <<>>
    /\ current_chord # NoChord
    /\ melody_right_note # NoNote
    /\ melody_left_note = NoNote

(***************************************************************************)
(* C36.  If from some update call on a hand's jerk stays at or below the   *)
(* threshold, while update keeps being called and the clock keeps          *)
(* advancing, then a note sounding for that hand is in the end turned off  *)
(* by exactly one note-off on the hand's channel, the hand's note becomes  *)
(* None, and no note event is sent for the hand until its next trigger.    *)
(***************************************************************************)
\* an update call with the hand's jerk above the threshold has just been
\* made (op and features are those of the latest call)
C36_RightTriggered == op = "update" /\ RightJerk > JERK_THRESHOLD
C36_LeftTriggered == op = "update" /\ LeftJerk > JERK_THRESHOLD

\* the hand has no note and its channel is silent
C36_RightSilent == melody_right_note = NoNote /\ sounding[CH_MELODY_RIGHT] = NoNote
C36_LeftSilent == melody_left_note = NoNote /\ sounding[CH_MELODY_LEFT] = NoNote

\* one hand in one update call without a trigger: a note that has lasted
\* longer than base_note_duration gets its one note-off and is forgotten,
\* a younger note is left alone, and with no note nothing happens
C36_Hand(note, time, jerk, ch, new_note) ==
    jerk <= JERK_THRESHOLD =>
        IF note # NoNote /\ now - time > base_note_duration
        THEN /\ NoteEvents(sent', {ch})
                  = <<[type |-> "note_off", channel |-> ch, note |-> note, velocity |-> 0]>>
             /\ new_note = NoNote
        ELSE /\ NoteEvents(sent', {ch}) = <<>>
             /\ new_note = note

C36_Step ==
    (op' = "update" /\ port = "open") =>
        /\ C36_Hand(melody_right_note, melody_right_note_time,
                    Get(features', "rightHandJerk", 0), CH_MELODY_RIGHT, melody_right_note')
        /\ C36_Hand(melody_left_note, melody_left_note_time,
                    Get(features', "leftHandJerk", 0), CH_MELODY_LEFT, melody_left_note')

C36_TimeoutEndsNote ==
    /\ <>[]~C36_RightTriggered => <>[]C36_RightSilent
    /\ <>[]~C36_LeftTriggered => <>[]C36_LeftSilent
    /\ [][C36_Step]_vars

\* a right-hand note that was left to time out has been turned off, in a
\* call in which the left hand triggered
C36_Witness ==
    /\ Called
    /\ RightJerk <= JERK_THRESHOLD
    /\ LeftJerk > JERK_THRESHOLD
    /\ Len(NoteEvents(sent, {CH_MELODY_RIGHT})) = 1
    /\ OffSent(CH_MELODY_RIGHT)
    /\ melody_right_note = NoNote

====
